---- MODULE Spec2Model ----
(***************************************************************************)
(* A model of the ABCI application multiplexer of oasis-core               *)
(* (go/consensus/tendermint/abci/mux.go): the application registry, the    *)
(* per-block lifecycle InitChain, BeginBlock, CheckTx / DeliverTx,         *)
(* EndBlock, Commit, the two state cursors (deliverTxTree, checkTxTree),   *)
(* halt-epoch handling and the invalidated-transaction watchers.           *)
(***************************************************************************)
EXTENDS Integers, Sequences, FiniteSets, TLC

(***************************************************************************)
(* Bounds of the model.                                                    *)
(***************************************************************************)
\* Largest block height that Commit may produce.
MaxHeight == 2
\* Largest number of CheckTx / DeliverTx calls in a run.
MaxTxs == 2
\* Largest epoch the epoch oracle answers with.
MaxEpoch == 2
\* Largest number of halt hooks registered.
MaxHaltHooks == 1
\* Largest number of WatchInvalidatedTx subscriptions ever created.
MaxSubs == 2
\* Largest address of a timer of an application.
MaxTimers == 2
MaxStake == 2
\* Largest number of blocks of the chain that EpochChanged is followed over.
MaxBlocks == 4
\* Largest number of bytes of a key that is split.
MaxKeyBytes == 2

(***************************************************************************)
(* The applications that may be passed to Register.     A name is a string,  *)
(* modelled as the sequence of its bytes: "a", "ab", "b".                  *)
(***************************************************************************)
None == "none"

AppObjs == {"P1", "P2", "P3", "P4"}

\* Application.Name()
Name(p) ==
  CASE p = "P1" -> <<1>>
    [] p = "P2" -> <<1, 2>>
    [] p = "P3" -> <<2>>
    [] p = "P4" -> <<2>>
    [] p = "P5" -> <<3>>

\* Application.Methods()
Methods(p) ==
  CASE p = "P1" -> <<"m1">>
    [] p = "P2" -> <<"m2">>
    [] p = "P3" -> <<"m3">>
    [] p = "P4" -> <<"m4", "m2">>
    [] p = "P5" -> <<"m5">>

\* Application.Blessed()
Blessed(p) == p \in {"P1", "P4"}

\* Application.Dependencies()
Dependencies(p) ==
  CASE p = "P2" -> {<<2>>}
    [] OTHER -> {}

Min2(a, b) == IF a <= b THEN a ELSE b

(***************************************************************************)
(* sort.Strings: byte-wise lexicographic order, a proper prefix first.     *)
(***************************************************************************)
StrLess(s, t) ==
  \E i \in 1..(Min2(Len(s), Len(t)) + 1) :
     /\ \A j \in 1..(i - 1) : s[j] = t[j]
     /\ \/ i > Len(s) /\ i <= Len(t)
        \/ i <= Len(s) /\ i <= Len(t) /\ s[i] < t[i]

\* A sort that orders the names by their length before their bytes.
RECURSIVE SortByLength(_)
SortByLength(S) ==
  IF S = {} THEN <<>>
  ELSE LET m == CHOOSE x \in S :
                  \A y \in S \ {x} :
                     Len(x) < Len(y) \/ (Len(x) = Len(y) /\ StrLess(x, y))
       IN <<m>> \o SortByLength(S \ {m})

RECURSIVE SortStrings(_)
SortStrings(S) ==
  IF S = {} THEN <<>>
  ELSE LET m == CHOOSE x \in S : \A y \in S \ {x} : StrLess(x, y)
       IN <<m>> \o SortStrings(S \ {m})

\* A sequence as the set of its elements.
Range(s) == {s[i] : i \in 1..Len(s)}

(***************************************************************************)
(* The state tree (an iavl.MutableTree): a map from keys to values, 0 for  *)
(* an absent key.  A write stores the number of the version it is made     *)
(* for, so that the versions of a tree differ.                             *)
(***************************************************************************)
\* stateKeyGenesisDigest, stateKeyGenesisRequest, stateKeyInitChainEvents,
\* the fee account written by the transaction auth handler, application state.
KeySeq == <<"digest", "request", "events", "fee", "app">>
Keys == Range(KeySeq)

EmptyTree == [k \in Keys |-> 0]

\* tree.Set(key, value)
TreeSet(t, k, v) == [t EXCEPT ![k] = v]

\* tree.Remove(key)
TreeRemove(t, k) == [t EXCEPT ![k] = 0]

\* tree.Hash(): the root digest, a function of the key-value set only.
RECURSIVE RootFrom(_, _)
RootFrom(t, i) ==
  IF i > Len(KeySeq) THEN 0
  ELSE t[KeySeq[i]] + (MaxHeight + 3) * RootFrom(t, i + 1)

Root(t) == RootFrom(t, 1)

(***************************************************************************)
(* Transactions.  size and wellFormed stand for the raw bytes: their       *)
(* length and whether they unmarshal, verify and pass SanityCheck.         *)
(***************************************************************************)
Txs ==
  { [hash |-> 1, method |-> "m1", size |-> 1, wellFormed |-> TRUE],
    [hash |-> 2, method |-> "m2", size |-> 2, wellFormed |-> TRUE],
    [hash |-> 3, method |-> "mx", size |-> 1, wellFormed |-> TRUE],
    [hash |-> 4, method |-> "m1", size |-> 1, wellFormed |-> FALSE] }

Hashes == {t.hash : t \in Txs}

\* A transaction of an application and one that does not decode.
CoreTxs == {t \in Txs : t.hash \in {1, 4}}

\* The configured ApplicationConfig.HaltEpochHeight.
HaltEpochHeight == 1

VARIABLES
  appsByName,      \* abciMux.appsByName: name -> application
  appsByMethod,    \* abciMux.appsByMethod: method -> application
  appsByLexOrder,  \* abciMux.appsByLexOrder
  appBlessed,      \* abciMux.appBlessed
  haltHooks,       \* abciMux.haltHooks, by their number
  timeSource,      \* ApplicationState.timeSource is set
  lastBeginBlock,  \* abciMux.lastBeginBlock
  maxTxSize,       \* abciMux.maxTxSize
  haltMode,        \* ApplicationState.haltMode
  blockHeight,     \* ApplicationState.blockHeight
  blockHash,       \* ApplicationState.blockHash
  deliverTxTree,   \* working state of ApplicationState.deliverTxTree
  checkTxTree,     \* working state of ApplicationState.checkTxTree
  checkTxVersion,  \* the version checkTxTree was loaded at
  saved,           \* the versions in the backing database, saved[v] is version v
  epochs,          \* the epoch oracle: epochs[h] is the epoch at height h, -1 not yet asked
  phase,           \* where the consensus engine is in its call sequence
  txCount,         \* CheckTx and DeliverTx calls made so far
  registered,      \* applications whose Register returned nil, in call order
  last,            \* the last call of the engine: what it invoked and returned
  invalidatedTxs,  \* abciMux.invalidatedTxs: transaction hash -> subscription
  subs,            \* the subscriptions ever made, each with its result channel
  notify,          \* where CheckTx is in notifying a subscriber
  registryState,   \* the registry application's part of the state tree
  regEpoch,        \* the epoch oracle's answer for the next height
  regHeightEpoch,  \* the epoch oracle's answer for the current height
  regLast,         \* the last call of a registry handler and what it returned
  kmStatuses,      \* the key manager application's statuses, by runtime
  kmRegistry,      \* the runtimes and nodes the key manager application reads
  kmLast,          \* the last epoch change of the key manager application
  stakingState,    \* the staking application's ledger
  stakingEpoch,    \* the epoch of the staking application's last block
  schedulerState,  \* the scheduler's runtime, nodes, epoch and committees
  instances,       \* two multiplexers that register applications and run blocks
  simulation,      \* the context of the EstimateGas call in flight
  epochChain,      \* a chain of blocks, the oracle's epochs and the EpochChanged calls
  split            \* the last key that was split, and the results of both splitters

muxVars == <<appsByName, appsByMethod, appsByLexOrder, appBlessed, haltHooks,
             timeSource, lastBeginBlock, maxTxSize>>
stateVars == <<haltMode, blockHeight, blockHash, deliverTxTree, checkTxTree,
               checkTxVersion, saved>>
watchVars == <<invalidatedTxs, subs, notify>>
vars == <<muxVars, stateVars, epochs, phase, txCount, registered, last,
          watchVars>>
regVars == <<registryState, regEpoch, regHeightEpoch, regLast>>
kmVars == <<kmStatuses, kmRegistry, kmLast>>
stakingVars == <<stakingState, stakingEpoch>>
appVars == <<regVars, kmVars, stakingVars, schedulerState, instances, simulation,
             epochChain, split>>
nonRegVars == <<vars, kmVars, stakingVars, schedulerState, instances, simulation,
                epochChain, split>>
nonKmVars == <<vars, regVars, stakingVars, schedulerState, instances, simulation,
               epochChain, split>>
nonStakingVars == <<vars, regVars, kmVars, schedulerState, instances, simulation,
                    epochChain, split>>
nonSchedulerVars == <<vars, regVars, kmVars, stakingVars, instances, simulation,
                      epochChain, split>>
nonInstanceVars == <<vars, regVars, kmVars, stakingVars, schedulerState, simulation,
                     epochChain, split>>
nonSimulationVars == <<regVars, kmVars, stakingVars, schedulerState, instances,
                       epochChain, split>>
nonEpochChainVars == <<vars, regVars, kmVars, stakingVars, schedulerState,
                       instances, simulation, split>>
nonSplitVars == <<vars, regVars, kmVars, stakingVars, schedulerState,
                  instances, simulation, epochChain>>
estimateVars == <<vars, simulation>>

(***************************************************************************)
(* The registry application: its transaction handlers over the registry    *)
(* part of the state tree.  A node descriptor carries its ID, the ID of    *)
(* its entity, its runtimes in the order of the descriptor and its         *)
(* expiration epoch.                                                       *)
(***************************************************************************)
Entities == {"A", "B"}

NodeIDs == {"N1"}

RuntimeIDs == {"RA", "RW"}

\* The runtimes of TestAdmissionPolicy: RA admits any node, RW has an
\* entity whitelist.  AnyNode is EntityWhitelist = nil.
AdmissionPolicy(rt) ==
  IF rt = "RW" THEN [AnyNode |-> FALSE, Entities |-> {"A"}]
               ELSE [AnyNode |-> TRUE, Entities |-> {}]

RuntimeLists == {<<>>, <<"RA">>, <<"RW">>, <<"RA", "RW">>}

Expirations == {1, 2}

Nodes == [ID : NodeIDs, EntityID : Entities, Runtimes : RuntimeLists,
          Expiration : Expirations]

NoNode == [ID |-> None, EntityID |-> None, Runtimes |-> <<>>, Expiration |-> 0]

Modes == {"InitChain", "DeliverTx", "CheckTx"}

\* The calls of a handler that can return an error the model does not
\* compute: the gas accountant, the stake checks and the state tree.
NodeFaults == {"gas", "entityStake", "nodeQuery", "maintenanceGas",
               "nodeStake", "setNode", "nodeStatus", "setNodeStatus"}

EmptyRegistry == [entities |-> {}, nodes |-> <<>>, nodeStatus |-> <<>>,
                  runtimes |-> {}, suspendedRuntimes |-> {}]

NoRegCall == [op |-> "none", mode |-> None, err |-> None, events |-> <<>>,
              node |-> NoNode, id |-> None, fault |-> None, feeCount |-> 0,
              gas |-> 0]

Event(key, id) == [key |-> key, id |-> id]

\* &registry.NodeStatus{}: the status of a node that is new
NewNodeStatus == [ExpirationProcessed |-> FALSE, FreezeEndTime |-> 0]

\* registryState: the lookups and writes of the handlers
HasRuntime(st, id) == id \in st.runtimes

HasSuspendedRuntime(st, id) == id \in st.suspendedRuntimes

HasEntityNodes(st, id) == \E n \in DOMAIN st.nodes : st.nodes[n].EntityID = id

SetEntity(st, id) == [st EXCEPT !.entities = @ \cup {id}]

RemoveEntity(st, id) == [st EXCEPT !.entities = @ \ {id}]

SetNode(st, n) ==
  [st EXCEPT !.nodes = [i \in DOMAIN st.nodes \cup {n.ID} |->
                          IF i = n.ID THEN n ELSE st.nodes[i]]]

SetNodeStatus(st, id, status) ==
  [st EXCEPT !.nodeStatus = [i \in DOMAIN st.nodeStatus \cup {id} |->
                               IF i = id THEN status ELSE st.nodeStatus[i]]]

SetRuntime(st, id, suspended) ==
  IF suspended THEN [st EXCEPT !.suspendedRuntimes = @ \cup {id}]
               ELSE [st EXCEPT !.runtimes = @ \cup {id}]

\* ResumeRuntime moves a suspended runtime back to the active ones and
\* answers ErrNoSuchRuntime for a runtime that is not suspended.
ResumeRuntime(st, id) ==
  IF HasSuspendedRuntime(st, id)
  THEN [err |-> None,
        state |-> [st EXCEPT !.suspendedRuntimes = @ \ {id},
                             !.runtimes = @ \cup {id}]]
  ELSE [err |-> "ErrNoSuchRuntime", state |-> st]

IsExpired(n, epoch) == n.Expiration <= epoch

\* registry.VerifyNodeUpdate: the entity and the runtimes of a live node
\* cannot change.
VerifyNodeUpdate(existing, n) ==
  IF existing.EntityID = n.EntityID /\ existing.Runtimes = n.Runtimes
  THEN None ELSE "ErrNodeUpdateNotAllowed"

\* StateCheckpoint.Rollback: the state is again the state of the checkpoint.
Rollback(sc) == sc

(***************************************************************************)
(* The key manager application: the runtimes and nodes it reads from the   *)
(* registry, and its statuses.                                             *)
(***************************************************************************)
KmRuntimeIDs == {"K1", "K2", "RC"}
KmNodeIDs == {<<1>>, <<2>>}
NoPolicy == [Serial |-> 0]
Policies == {[Serial |-> 1]}
Checksums == {"c1", "c2"}

\* the registered runtime descriptor of an id
KmRuntime(id) ==
  [ID |-> id,
   Kind |-> IF id = "RC" THEN "KindCompute" ELSE "KindKeyManager",
   TEEHardware |-> IF id = "K1" THEN "TEEHardwareIntelSGX"
                                ELSE "TEEHardwareInvalid"]

\* cbor.Marshal: the canonical encoding, the tagged sequence of the fields
Marshal(src) ==
  IF "Nodes" \in DOMAIN src
  THEN <<"status", src.ID, src.IsInitialized, src.IsSecure, src.Checksum,
         src.Policy, src.Nodes>>
  ELSE <<"policy", src.Serial>>

ChecksumSize == 32

\* sha3.Sum256: a digest of ChecksumSize bytes, one per input
Sum256(raw) == [i \in 1..ChecksumSize |-> IF raw = <<>> THEN 0 ELSE 1]

emptyHashSha3 == Sum256(<<>>)

\* a runtime entry of a node descriptor, with the init response its extra
\* info carries
NodeRuntime(id, tee, valid, secure, checksum, policyChecksum) ==
  [ID |-> id, TEE |-> tee,
   ExtraInfo |-> [Valid |-> valid, IsSecure |-> secure, Checksum |-> checksum,
                  PolicyChecksum |-> policyChecksum]]

\* the node descriptors of the inputs, without their ids
KmProfiles ==
  { [KM |-> TRUE,
     Runtimes |-> <<NodeRuntime("K1", "TEEHardwareIntelSGX", TRUE, TRUE, "c1", <<>>)>>],
    [KM |-> TRUE,
     Runtimes |-> <<NodeRuntime("K1", "TEEHardwareIntelSGX", TRUE, FALSE, "c1", <<>>)>>],
    [KM |-> TRUE,
     Runtimes |-> <<NodeRuntime("K1", "TEEHardwareIntelSGX", TRUE, TRUE, "c2",
                                emptyHashSha3)>>],
    [KM |-> FALSE,
     Runtimes |-> <<NodeRuntime("K1", "TEEHardwareIntelSGX", TRUE, TRUE, "c1", <<>>)>>],
    [KM |-> TRUE,
     Runtimes |-> <<NodeRuntime("K1", None, TRUE, TRUE, "c1", <<>>)>>],
    [KM |-> TRUE,
     Runtimes |-> <<NodeRuntime("RC", None, TRUE, TRUE, "c2", <<>>),
                    NodeRuntime("K2", None, TRUE, TRUE, "c1", <<>>)>>],
    [KM |-> TRUE,
     Runtimes |-> <<NodeRuntime("K2", "TEEHardwareIntelSGX", TRUE, TRUE, "c1", <<>>)>>],
    [KM |-> TRUE,
     Runtimes |-> <<NodeRuntime("K1", "TEEHardwareIntelSGX", FALSE, TRUE, "c1", <<>>)>>],
    [KM |-> TRUE,
     Runtimes |-> <<NodeRuntime("K1", "TEEHardwareIntelSGX", TRUE, TRUE, "c1", <<1>>)>>],
    [KM |-> TRUE,
     Runtimes |-> <<NodeRuntime("K1", "TEEHardwareIntelSGX", TRUE, TRUE, "c1",
                                Sum256(Marshal([Serial |-> 1])))>>] }

KmNode(id, profile) == [ID |-> id, KM |-> profile.KM, Runtimes |-> profile.Runtimes]

\* api.Status of a runtime without a stored status
NewStatus(id) ==
  [ID |-> id, IsInitialized |-> FALSE, IsSecure |-> FALSE, Checksum |-> None,
   Policy |-> NoPolicy, Nodes |-> <<>>]

\* the statuses a genesis document sets for a key manager runtime
GenesisStatuses ==
  { [NewStatus("K1") EXCEPT !.IsSecure = TRUE, !.Policy = [Serial |-> 1]],
    [NewStatus("K1") EXCEPT !.IsSecure = TRUE] }

NoKmCall == [op |-> "none", err |-> None, events |-> <<>>, stored |-> {},
             initialized |-> {}]

(***************************************************************************)
(* The staking application's ledger: accounts with a general balance and   *)
(* an active and a debonding escrow pool, delegations and debonding        *)
(* delegations by (escrow account, delegator), the common pool, the block  *)
(* fee pool and the total supply.                                          *)
(***************************************************************************)
StakeAccounts == {"A", "B"}
Amounts == 1..MaxStake
NoPool == [Balance |-> 0, TotalShares |-> 0]

\* the ledger of the genesis document: MaxStake tokens for every account
GenesisStaking ==
  [accounts |-> [a \in StakeAccounts |->
                   [General |-> MaxStake, Active |-> NoPool, Debonding |-> NoPool]],
   delegations |-> [p \in StakeAccounts \X StakeAccounts |-> 0],
   debondingDelegations |-> [p \in StakeAccounts \X StakeAccounts |->
                               [Shares |-> 0, EndEpoch |-> 0]],
   commonPool |-> 0,
   lastBlockFees |-> 0,
   totalSupply |-> MaxStake * Cardinality(StakeAccounts)]

(***************************************************************************)
(* The scheduler: a runtime with its group sizes, the nodes registered for *)
(* it and the committees elected at the last epoch transition.             *)
(***************************************************************************)
CommitteeKinds ==
  {"KindComputeExecutor", "KindComputeMerge", "KindComputeTxnScheduler", "KindStorage"}

\* the descriptors the runtime is registered with: the test runtime, the one
\* the test registers again with less nodes, and one with larger groups
TestRuntimes ==
  << [Executor |-> [GroupSize |-> 1, GroupBackupSize |-> 0],
      Merge |-> [GroupSize |-> 1, GroupBackupSize |-> 0],
      TxnScheduler |-> [GroupSize |-> 1],
      Storage |-> [GroupSize |-> 1]],
     [Executor |-> [GroupSize |-> 2, GroupBackupSize |-> 1],
      Merge |-> [GroupSize |-> 1, GroupBackupSize |-> 0],
      TxnScheduler |-> [GroupSize |-> 1],
      Storage |-> [GroupSize |-> 1]],
     [Executor |-> [GroupSize |-> 1, GroupBackupSize |-> 1],
      Merge |-> [GroupSize |-> 2, GroupBackupSize |-> 1],
      TxnScheduler |-> [GroupSize |-> 2],
      Storage |-> [GroupSize |-> 2]] >>

\* the nodes of the test, by id, with their roles
SchedulerNodes ==
  [id \in 1..3 |-> IF id = 2 THEN {"RoleComputeWorker"}
                   ELSE {"RoleComputeWorker", "RoleStorageWorker"}]

NoCommittee == [Kind |-> None, Members |-> <<>>, ValidFor |-> 0,
                Runtime |-> TestRuntimes[1]]

\* newABCIMux: a multiplexer without applications, as one of two instances
NewMux ==
  [appsByName |-> <<>>, appsByMethod |-> <<>>, appsByLexOrder |-> <<>>,
   appBlessed |-> None, registered |-> {}, attempted |-> {}, started |-> FALSE,
   blocks |-> <<>>]

\* No key has been split.  pc: none, key (a key and an index are chosen) or
\* done (both splitters have returned).
NoSplit == [key |-> [k |-> <<>>, msbBix |-> 0], ix |-> 0,
            fast |-> [panic |-> FALSE, pfx |-> [k |-> <<>>, msbBix |-> 0],
                      sfx |-> [k |-> <<>>, msbBix |-> 0]],
            obvious |-> [panic |-> FALSE, pfx |-> [k |-> <<>>, msbBix |-> 0],
                         sfx |-> [k |-> <<>>, msbBix |-> 0]],
            pc |-> "none"]

\* No EstimateGas call in flight.  pc: where the call is; state: the tree
\* its context works on; version: the version a forked tree was loaded at;
\* tree: the working state of the forked tree; gas: the gas used so far.
NoSimulation == [pc |-> "idle", state |-> None, version |-> 0,
                 tree |-> EmptyTree, gas |-> 0]

NoCall == [op |-> "none", res |-> "none", calls |-> <<>>, tx |-> None,
           pre |-> 0, epoch |-> -1, type |-> None, watcher |-> 0,
           mempool |-> EmptyTree, failed |-> None, due |-> {}, events |-> <<>>]

Idle == [pc |-> "idle", sub |-> 0, hash |-> 0]

\* newABCIMux, newApplicationState on an empty database
Init ==
  /\ appsByName = <<>>
  /\ appsByMethod = <<>>
  /\ appsByLexOrder = <<>>
  /\ appBlessed = None
  /\ haltHooks = 0
  /\ timeSource = FALSE
  /\ lastBeginBlock = -1
  /\ maxTxSize = 0
  /\ haltMode = FALSE
  /\ blockHeight = 0
  /\ blockHash = Root(EmptyTree)
  /\ deliverTxTree = EmptyTree
  /\ checkTxTree = EmptyTree
  /\ checkTxVersion = 0
  /\ saved = <<>>
  /\ epochs = [h \in 1..(MaxHeight + 1) |-> -1]
  /\ phase = "setup"
  /\ txCount = 0
  /\ registered = <<>>
  /\ last = NoCall
  /\ invalidatedTxs = <<>>
  /\ subs = <<>>
  /\ notify = Idle
  /\ registryState = EmptyRegistry
  /\ regEpoch = 0
  /\ regHeightEpoch = 0
  /\ regLast = NoRegCall
  /\ kmStatuses = <<>>
  /\ kmRegistry = [runtimes |-> <<>>, nodes |-> <<>>]
  /\ kmLast = NoKmCall
  /\ stakingState = GenesisStaking
  /\ stakingEpoch = 0
  /\ schedulerState = [runtime |-> TestRuntimes[1], nodes |-> {}, epoch |-> 0,
                       committees |-> [k \in CommitteeKinds |-> NoCommittee]]
  /\ instances = [i \in 1..2 |-> NewMux]
  /\ simulation = NoSimulation
  /\ epochChain = [height |-> 0, oracle |-> <<>>, calls |-> <<>>]
  /\ split = NoSplit

(***************************************************************************)
(* Registration.                                                           *)
(***************************************************************************)
\* The loop of doRegister over app.Methods(): stops at the first method that
\* is already owned and keeps the methods entered before it.
RECURSIVE AddMethods(_, _, _)
AddMethods(byMethod, ms, app) ==
  IF ms = <<>> THEN [map |-> byMethod, ok |-> TRUE]
  ELSE IF Head(ms) \in DOMAIN byMethod THEN [map |-> byMethod, ok |-> FALSE]
  ELSE AddMethods(byMethod @@ (Head(ms) :> app), Tail(ms), app)

\* rebuildAppLexOrdering
RebuildAppLexOrdering(byName) ==
  LET appOrder == SortStrings(DOMAIN byName)
  IN [i \in 1..Len(appOrder) |-> byName[appOrder[i]]]

\* A registration that does not enforce the limit of one blessed application.
RegisterAnyBlessed(app) ==
  /\ phase = "setup"
  /\ IF Name(app) \in DOMAIN appsByName
     THEN UNCHANGED <<appsByName, appsByMethod, appsByLexOrder, appBlessed, registered>>
     ELSE LET byName == appsByName @@ (Name(app) :> app)
              added == AddMethods(appsByMethod, Methods(app), app)
          IN /\ appBlessed' = IF Blessed(app) THEN app ELSE appBlessed
             /\ appsByName' = byName
             /\ appsByMethod' = added.map
             /\ IF added.ok
                THEN /\ appsByLexOrder' = RebuildAppLexOrdering(byName)
                     /\ registered' = Append(registered, app)
                ELSE UNCHANGED <<appsByLexOrder, registered>>
  /\ UNCHANGED <<haltHooks, timeSource, lastBeginBlock, maxTxSize, stateVars,
                 epochs, phase, txCount, last, watchVars>>
  /\ UNCHANGED appVars

\* ApplicationServer.Register / abciMux.doRegister
Register(app) ==
  /\ phase = "setup"
  /\ IF Name(app) \in DOMAIN appsByName
     THEN UNCHANGED <<appsByName, appsByMethod, appsByLexOrder, appBlessed, registered>>
     ELSE IF Blessed(app) /\ appBlessed # None
     THEN UNCHANGED <<appsByName, appsByMethod, appsByLexOrder, appBlessed, registered>>
     ELSE LET byName == appsByName @@ (Name(app) :> app)
              added == AddMethods(appsByMethod, Methods(app), app)
          IN /\ appBlessed' = IF Blessed(app) THEN app ELSE appBlessed
             /\ appsByName' = byName
             /\ appsByMethod' = added.map
             /\ IF added.ok
                THEN /\ appsByLexOrder' = RebuildAppLexOrdering(byName)
                     /\ registered' = Append(registered, app)
                ELSE UNCHANGED <<appsByLexOrder, registered>>
  /\ UNCHANGED <<haltHooks, timeSource, lastBeginBlock, maxTxSize, stateVars,
                 epochs, phase, txCount, last, watchVars>>
  /\ UNCHANGED appVars

\* ApplicationServer.RegisterHaltHook / abciMux.registerHaltHook
RegisterHaltHook ==
  /\ phase = "setup"
  /\ haltHooks < MaxHaltHooks
  /\ haltHooks' = haltHooks + 1
  /\ UNCHANGED <<appsByName, appsByMethod, appsByLexOrder, appBlessed, timeSource,
                 lastBeginBlock, maxTxSize, stateVars, epochs, phase, txCount,
                 registered, last, watchVars>>
  /\ UNCHANGED appVars

\* ApplicationServer.SetEpochtime
SetEpochtime ==
  /\ phase = "setup"
  /\ ~timeSource
  /\ timeSource' = TRUE
  /\ UNCHANGED <<appsByName, appsByMethod, appsByLexOrder, appBlessed, haltHooks,
                 lastBeginBlock, maxTxSize, stateVars, epochs, phase, txCount,
                 registered, last, watchVars>>
  /\ UNCHANGED appVars

\* abciMux.checkDependencies
CheckDependencies ==
  \A n \in DOMAIN appsByName :
     \A dep \in Dependencies(appsByName[n]) : dep \in DOMAIN appsByName

\* ApplicationServer.Start: the engine is started only when Start returns nil.
Start ==
  /\ phase = "setup"
  /\ timeSource
  /\ CheckDependencies
  /\ phase' = "init"
  /\ last' = [NoCall EXCEPT !.op = "Start", !.res = "ok"]
  /\ UNCHANGED <<muxVars, stateVars, epochs, txCount, registered, watchVars>>
  /\ UNCHANGED appVars

(***************************************************************************)
(* The epoch oracle (epochtime.Backend.GetEpoch): epochs never decrease    *)
(* with the height, and the answer for a height, once given, is fixed.     *)
(***************************************************************************)
EpochAnswers(h) ==
  IF epochs[h] # -1 THEN {epochs[h]}
  ELSE {e \in 0..MaxEpoch :
          /\ \A g \in 1..(h - 1) : epochs[g] <= e
          /\ \A g \in (h + 1)..(MaxHeight + 1) : epochs[g] = -1 \/ e <= epochs[g]}

(***************************************************************************)
(* Hooks of the applications.  A hook's result is the application's        *)
(* choice: failAt is the position in the dispatch order of the first       *)
(* application that returns an error, 0 when none does.                    *)
(***************************************************************************)
Dispatched(kind, apps, failAt) ==
  [i \in 1..(IF failAt = 0 THEN Len(apps) ELSE failAt) |-> <<kind, apps[i]>>]

\* The application whose hook returned the error, None when none did.
Failed(apps, failAt) == IF failAt = 0 THEN None ELSE apps[failAt]

\* The value a write made while building version blockHeight + 1 stores.
Stamp == blockHeight + 1

\* A decoding that does not look at the halt mode.
DecodeTxNoHalt(tx) ==
  IF maxTxSize > 0 /\ tx.size > maxTxSize THEN "oversized"
  ELSE IF ~tx.wellFormed THEN "malformed"
  ELSE None

\* abciMux.decodeTx: the error it returns, None when the transaction decodes.
DecodeTx(tx) ==
  IF haltMode THEN "halt"
  ELSE IF maxTxSize > 0 /\ tx.size > maxTxSize THEN "oversized"
  ELSE IF ~tx.wellFormed THEN "malformed"
  ELSE None

\* A dispatch that does not skip the owning application.
ForeignAppsAll(app) == appsByLexOrder

\* The applications that get the ForeignExecuteTx hook of a transaction of app.
ForeignApps(app) == SelectSeq(appsByLexOrder, LAMBDA f : f # app)

\* What the handlers of one transaction answer: the auth handler rejects it,
\* the owning application's ExecuteTx returns an error, the k-th foreign
\* application's ForeignExecuteTx returns an error, or none does.
Answers ==
  {[fails |-> f, at |-> 0] : f \in {"auth", "execute", "none"}}
    \cup {[fails |-> "foreign", at |-> k] : k \in 1..(Len(appsByLexOrder) - 1)}

\* A processTx that looks for the owner of the method before anything else.
ProcessTxRouteFirst(tree, tx, answer) ==
  LET authCalls == <<<<"AuthenticateTx", None>>>>
      authTree == TreeSet(tree, "fee", Stamp)
  IN IF tx.method \notin DOMAIN appsByMethod
     THEN [tree |-> tree, calls |-> <<>>, err |-> "unknown method", failed |-> None]
     ELSE IF answer.fails = "auth"
     THEN [tree |-> tree, calls |-> authCalls, err |-> "auth", failed |-> "TxAuth"]
     ELSE LET app == appsByMethod[tx.method]
              execCalls == Append(authCalls, <<"ExecuteTx", app>>)
              execTree == TreeSet(authTree, "app", Stamp)
              foreign == ForeignApps(app)
              ff == IF answer.at \in 1..Len(foreign) THEN answer.at ELSE 0
          IN IF answer.fails = "execute"
             THEN [tree |-> authTree, calls |-> execCalls, err |-> "execute",
                   failed |-> app]
             ELSE [tree |-> execTree,
                   calls |-> execCalls \o Dispatched("ForeignExecuteTx", foreign, ff),
                   err |-> IF ff = 0 THEN None ELSE "foreign",
                   failed |-> Failed(foreign, ff)]

\* abciMux.processTx on the tree of the context.
ProcessTx(tree, tx, answer) ==
  LET authCalls == <<<<"AuthenticateTx", None>>>>
      \* AuthenticateTx deducts the fee and advances the nonce when it accepts.
      authTree == TreeSet(tree, "fee", Stamp)
  IN IF answer.fails = "auth"
     THEN [tree |-> tree, calls |-> authCalls, err |-> "auth", failed |-> "TxAuth"]
     ELSE IF tx.method \notin DOMAIN appsByMethod
     THEN [tree |-> authTree, calls |-> authCalls, err |-> "unknown method",
           failed |-> None]
     ELSE LET app == appsByMethod[tx.method]
              execCalls == Append(authCalls, <<"ExecuteTx", app>>)
              execTree == TreeSet(authTree, "app", Stamp)
              foreign == ForeignApps(app)
              ff == IF answer.at \in 1..Len(foreign) THEN answer.at ELSE 0
          IN IF answer.fails = "execute"
             THEN [tree |-> authTree, calls |-> execCalls, err |-> "execute",
                   failed |-> app]
             ELSE [tree |-> execTree,
                   calls |-> execCalls \o Dispatched("ForeignExecuteTx", foreign, ff),
                   err |-> IF ff = 0 THEN None ELSE "foreign",
                   failed |-> Failed(foreign, ff)]

\* abciMux.executeTx
ExecuteTx(tree, tx, answer) ==
  IF DecodeTx(tx) # None
  THEN [tree |-> tree, calls |-> <<>>, err |-> DecodeTx(tx), failed |-> None]
  ELSE ProcessTx(tree, tx, answer)

Panic == phase' = "crashed"

(***************************************************************************)
(* The calls of the consensus engine.  The events of a response are a      *)
(* sequence of the phases whose contexts collected them.                   *)
(***************************************************************************)
\* abciMux.InitChain.  sizes: the values of the genesis document's MaxTxSize.
InitChain(sizes) ==
  /\ phase = "init"
  /\ \E size \in sizes, failAt \in 0..Len(appsByLexOrder) :
       /\ maxTxSize' = size
       /\ deliverTxTree' =
            LET t1 == TreeSet(TreeSet(deliverTxTree, "digest", Stamp), "request", Stamp)
            IN IF failAt = 0 THEN TreeSet(t1, "events", Stamp) ELSE t1
       /\ checkTxTree' = TreeSet(checkTxTree, "request", Stamp)
       /\ last' = [NoCall EXCEPT !.op = "InitChain",
                                 !.res = IF failAt = 0 THEN "ok" ELSE "panic",
                                 !.calls = Dispatched("InitChain", appsByLexOrder, failAt),
                                 !.failed = Failed(appsByLexOrder, failAt)]
       /\ phase' = IF failAt = 0 THEN "begin" ELSE "crashed"
  /\ UNCHANGED <<appsByName, appsByMethod, appsByLexOrder, appBlessed, haltHooks,
                 timeSource, lastBeginBlock, haltMode, blockHeight, blockHash,
                 checkTxVersion, saved, epochs, txCount, registered,
                 watchVars>>
  /\ UNCHANGED appVars

\* The halt hooks, in the order they were registered.
HaltCalls == [i \in 1..haltHooks |-> <<"HaltHook", i>>]

\* A check that lets every BeginBlock through.
RedundantBeginBlockNever(last_, height) == FALSE

\* The check of BeginBlock against abciMux.lastBeginBlock.
RedundantBeginBlock(last_, height) == last_ = height

\* abciMux.BeginBlock, with ApplicationState.inHaltEpoch and afterHaltEpoch.
\* epochErr: GetEpoch returns an error; e: the epoch it returns otherwise.
BeginBlock ==
  /\ phase \in {"begin", "txs"}
  /\ notify.pc = "idle"
  /\ UNCHANGED <<appsByName, appsByMethod, appsByLexOrder, appBlessed, haltHooks,
                 timeSource, maxTxSize, blockHeight, blockHash, checkTxTree,
                 checkTxVersion, saved, registered, watchVars>>
  /\ IF RedundantBeginBlock(lastBeginBlock, blockHeight)
     THEN /\ Panic
          /\ last' = [NoCall EXCEPT !.op = "BeginBlock", !.res = "panic"]
          /\ UNCHANGED <<lastBeginBlock, haltMode, deliverTxTree, epochs, txCount>>
     ELSE
       /\ lastBeginBlock' = blockHeight
       /\ UNCHANGED txCount
       /\ \E epochErr \in BOOLEAN, e \in EpochAnswers(blockHeight + 1),
             failAt \in 0..Len(appsByLexOrder) :
            LET call == [NoCall EXCEPT !.op = "BeginBlock",
                                       !.epoch = IF epochErr THEN -1 ELSE e]
                inHalt == ~epochErr /\ e = HaltEpochHeight
                afterHalt == ~epochErr /\ e > HaltEpochHeight
            IN /\ epochs' = IF epochErr THEN epochs
                            ELSE [epochs EXCEPT ![blockHeight + 1] = e]
               /\ IF ~haltMode /\ inHalt
                  THEN \* On transition, trigger halt hooks.
                       /\ haltMode' = TRUE
                       /\ last' = [call EXCEPT !.res = "empty", !.calls = HaltCalls]
                       /\ phase' = "txs"
                       /\ UNCHANGED deliverTxTree
                  ELSE IF haltMode /\ ~afterHalt
                  THEN /\ last' = [call EXCEPT !.res = "empty"]
                       /\ phase' = "txs"
                       /\ UNCHANGED <<haltMode, deliverTxTree>>
                  ELSE IF haltMode
                  THEN /\ Panic
                       /\ last' = [call EXCEPT !.res = "panic"]
                       /\ UNCHANGED <<haltMode, deliverTxTree>>
                  ELSE \* Dispatch BeginBlock to all applications.
                       /\ UNCHANGED haltMode
                       /\ last' = [call EXCEPT
                                     !.res = IF failAt = 0 THEN "ok" ELSE "panic",
                                     !.calls = Dispatched("BeginBlock", appsByLexOrder, failAt),
                                     !.failed = Failed(appsByLexOrder, failAt),
                                     !.events =
                                       IF failAt # 0 THEN <<>>
                                       ELSE IF blockHeight = 0 /\ deliverTxTree["events"] # 0
                                       THEN <<"InitChain", "BeginBlock">>
                                       ELSE <<"BeginBlock">>]
                       /\ phase' = IF failAt = 0 THEN "txs" ELSE "crashed"
                       /\ deliverTxTree' =
                            IF failAt = 0 /\ blockHeight = 0 /\ deliverTxTree["events"] # 0
                            THEN TreeRemove(deliverTxTree, "events")
                            ELSE deliverTxTree
  /\ UNCHANGED appVars

\* abciMux.Info
Info == [LastBlockHeight |-> blockHeight, LastBlockAppHash |-> blockHash]

\* abciMux.DeliverTx of one of the transactions txs
DeliverTx(txs) ==
  /\ phase = "txs"
  /\ notify.pc = "idle"
  /\ txCount < MaxTxs
  /\ txCount' = txCount + 1
  /\ \E tx \in txs, answer \in Answers :
       LET r == ExecuteTx(deliverTxTree, tx, answer)
       IN /\ deliverTxTree' = r.tree
          /\ last' = [NoCall EXCEPT !.op = "DeliverTx",
                                    !.res = IF r.err = None THEN "ok" ELSE r.err,
                                    !.calls = r.calls,
                                    !.tx = tx,
                                    !.pre = Root(deliverTxTree),
                                    !.failed = r.failed,
                                    !.events = IF r.err = None THEN <<"DeliverTx">>
                                               ELSE <<>>]
  /\ UNCHANGED <<muxVars, haltMode, blockHeight, blockHash, checkTxTree,
                 checkTxVersion, saved, epochs, phase, registered,
                 watchVars>>
  /\ UNCHANGED appVars

(***************************************************************************)
(* Timers.  A timer is armed by an application for an address and a        *)
(* deadline; the timers that are due in a block are an input of EndBlock:   *)
(* pairs <<application, address>>.                                          *)
(***************************************************************************)
\* The addresses of a set, in ascending order.
RECURSIVE SortAddrs(_)
SortAddrs(S) ==
  IF S = {} THEN <<>>
  ELSE LET m == CHOOSE x \in S : \A y \in S : x <= y
       IN <<m>> \o SortAddrs(S \ {m})

\* fireTimers(ctx, app): FireTimer for the due timers of the application,
\* by address.
FireTimers(app, due) ==
  LET addrs == SortAddrs({a \in 1..MaxTimers : <<app, a>> \in due})
  IN [i \in 1..Len(addrs) |-> <<"FireTimer", app, addrs[i]>>]

\* The first loop of EndBlock from the i-th application on.  failAt: the
\* application whose fireTimers returns an error, after n of its timers.
RECURSIVE TimerCalls(_, _, _, _, _)
TimerCalls(apps, due, failAt, n, i) ==
  IF i > Len(apps) THEN <<>>
  ELSE LET fired == FireTimers(apps[i], due)
       IN IF i = failAt
          THEN <<<<"FireTimers", apps[i]>>>> \o SubSeq(fired, 1, Min2(n, Len(fired)))
          ELSE <<<<"FireTimers", apps[i]>>>> \o fired
                 \o TimerCalls(apps, due, failAt, n, i + 1)

\* An EndBlock that logs the error of a timer and carries on.
EndBlockIgnoreTimerError(addrs) ==
  /\ phase = "txs"
  /\ notify.pc = "idle"
  /\ \E due \in SUBSET (Range(appsByLexOrder) \X addrs) :
       IF haltMode
       THEN /\ last' = [NoCall EXCEPT !.op = "EndBlock", !.res = "empty", !.due = due]
            /\ phase' = "commit"
       ELSE \E timerFail \in 0..Len(appsByLexOrder), endFail \in 0..Len(appsByLexOrder),
               n \in 0..Cardinality(addrs) :
              LET timers == TimerCalls(appsByLexOrder, due, 0, n, 1)
                  ends == Dispatched("EndBlock", appsByLexOrder, endFail)
                  ok == endFail = 0
              IN /\ last' = [NoCall EXCEPT
                               !.op = "EndBlock",
                               !.res = IF ok THEN "ok" ELSE "panic",
                               !.calls = timers \o ends,
                               !.due = due,
                               !.events = IF ok THEN <<"EndBlock">> ELSE <<>>,
                               !.failed = IF timerFail # 0
                                          THEN Failed(appsByLexOrder, timerFail)
                                          ELSE Failed(appsByLexOrder, endFail)]
                 /\ phase' = IF ok THEN "commit" ELSE "crashed"
  /\ UNCHANGED <<muxVars, stateVars, epochs, txCount, registered,
                 watchVars>>
  /\ UNCHANGED appVars

\* An EndBlock that runs the EndBlock hooks before it fires the timers.
EndBlockHooksFirst(addrs) ==
  /\ phase = "txs"
  /\ notify.pc = "idle"
  /\ \E due \in SUBSET (Range(appsByLexOrder) \X addrs) :
       IF haltMode
       THEN /\ last' = [NoCall EXCEPT !.op = "EndBlock", !.res = "empty", !.due = due]
            /\ phase' = "commit"
       ELSE \E timerFail \in 0..Len(appsByLexOrder), endFail \in 0..Len(appsByLexOrder),
               n \in 0..Cardinality(addrs) :
              LET timers == TimerCalls(appsByLexOrder, due, timerFail, n, 1)
                  ends == Dispatched("EndBlock", appsByLexOrder, endFail)
                  ok == timerFail = 0 /\ endFail = 0
              IN /\ last' = [NoCall EXCEPT
                               !.op = "EndBlock",
                               !.res = IF ok THEN "ok" ELSE "panic",
                               !.calls = IF endFail # 0 THEN ends ELSE ends \o timers,
                               !.due = due,
                               !.events = IF ok THEN <<"EndBlock">> ELSE <<>>,
                               !.failed = IF endFail # 0
                                          THEN Failed(appsByLexOrder, endFail)
                                          ELSE Failed(appsByLexOrder, timerFail)]
                 /\ phase' = IF ok THEN "commit" ELSE "crashed"
  /\ UNCHANGED <<muxVars, stateVars, epochs, txCount, registered,
                 watchVars>>
  /\ UNCHANGED appVars

\* abciMux.EndBlock.  addrs: the addresses timers are armed for; due: the
\* timers that are due; timerFail, endFail: the first application whose
\* timers, whose EndBlock returns an error.
EndBlock(addrs) ==
  /\ phase = "txs"
  /\ notify.pc = "idle"
  /\ \E due \in SUBSET (Range(appsByLexOrder) \X addrs) :
       IF haltMode
       THEN /\ last' = [NoCall EXCEPT !.op = "EndBlock", !.res = "empty", !.due = due]
            /\ phase' = "commit"
       ELSE \E timerFail \in 0..Len(appsByLexOrder), endFail \in 0..Len(appsByLexOrder),
               n \in 0..Cardinality(addrs) :
              LET timers == TimerCalls(appsByLexOrder, due, timerFail, n, 1)
                  ends == Dispatched("EndBlock", appsByLexOrder, endFail)
                  ok == timerFail = 0 /\ endFail = 0
              IN /\ last' = [NoCall EXCEPT
                               !.op = "EndBlock",
                               !.res = IF ok THEN "ok" ELSE "panic",
                               !.calls = IF timerFail # 0 THEN timers ELSE timers \o ends,
                               !.due = due,
                               !.events = IF ok THEN <<"EndBlock">> ELSE <<>>,
                               !.failed = IF timerFail # 0
                                          THEN Failed(appsByLexOrder, timerFail)
                                          ELSE Failed(appsByLexOrder, endFail)]
                 /\ phase' = IF ok THEN "commit" ELSE "crashed"
  /\ UNCHANGED <<muxVars, stateVars, epochs, txCount, registered,
                 watchVars>>
  /\ UNCHANGED appVars

\* A commit that leaves the mempool cursor's working state in place.
DoCommitNoReload(saveOk, loadOk) ==
  LET call == [NoCall EXCEPT !.op = "Commit", !.pre = Root(deliverTxTree),
                             !.mempool = checkTxTree]
  IN IF ~saveOk
     THEN /\ Panic
          /\ last' = [call EXCEPT !.res = "panic",
                                  !.calls = <<<<"SaveVersion", "error">>>>]
          /\ UNCHANGED <<blockHash, blockHeight, saved, checkTxTree, checkTxVersion>>
     ELSE /\ saved' = Append(saved, deliverTxTree)
          /\ blockHash' = Root(deliverTxTree)
          /\ blockHeight' = Len(saved) + 1
          /\ checkTxVersion' = blockHeight'
          /\ UNCHANGED checkTxTree
          /\ phase' = "begin"
          /\ last' = [call EXCEPT !.res = "ok",
                        !.calls = <<<<"SaveVersion", "ok">>, <<"LoadVersion", "ok">>>>]

\* A commit that records the new height and keeps the hash of the old one.
DoCommitStaleHash(saveOk, loadOk) ==
  LET call == [NoCall EXCEPT !.op = "Commit", !.pre = Root(deliverTxTree),
                             !.mempool = checkTxTree]
  IN IF ~saveOk
     THEN /\ Panic
          /\ last' = [call EXCEPT !.res = "panic",
                                  !.calls = <<<<"SaveVersion", "error">>>>]
          /\ UNCHANGED <<blockHash, blockHeight, saved, checkTxTree, checkTxVersion>>
     ELSE /\ saved' = Append(saved, deliverTxTree)
          /\ UNCHANGED blockHash
          /\ blockHeight' = Len(saved) + 1
          /\ IF ~loadOk
             THEN /\ Panic
                  /\ last' = [call EXCEPT !.res = "panic",
                                !.calls = <<<<"SaveVersion", "ok">>,
                                            <<"LoadVersion", "error">>>>]
                  /\ UNCHANGED <<checkTxTree, checkTxVersion>>
             ELSE /\ checkTxTree' = saved'[blockHeight']
                  /\ checkTxVersion' = blockHeight'
                  /\ phase' = "begin"
                  /\ last' = [call EXCEPT !.res = "ok",
                                !.calls = <<<<"SaveVersion", "ok">>,
                                            <<"LoadVersion", "ok">>>>]

\* A commit that returns although reloading the mempool cursor failed.
DoCommitIgnoreLoadError(saveOk, loadOk) ==
  LET call == [NoCall EXCEPT !.op = "Commit", !.pre = Root(deliverTxTree),
                             !.mempool = checkTxTree]
  IN IF ~saveOk
     THEN /\ Panic
          /\ last' = [call EXCEPT !.res = "panic",
                                  !.calls = <<<<"SaveVersion", "error">>>>]
          /\ UNCHANGED <<blockHash, blockHeight, saved, checkTxTree, checkTxVersion>>
     ELSE /\ saved' = Append(saved, deliverTxTree)
          /\ blockHash' = Root(deliverTxTree)
          /\ blockHeight' = Len(saved) + 1
          /\ phase' = "begin"
          /\ IF ~loadOk
             THEN /\ last' = [call EXCEPT !.res = "ok",
                                !.calls = <<<<"SaveVersion", "ok">>,
                                            <<"LoadVersion", "error">>>>]
                  /\ UNCHANGED <<checkTxTree, checkTxVersion>>
             ELSE /\ checkTxTree' = saved'[blockHeight']
                  /\ checkTxVersion' = blockHeight'
                  /\ last' = [call EXCEPT !.res = "ok",
                                !.calls = <<<<"SaveVersion", "ok">>,
                                            <<"LoadVersion", "ok">>>>]

\* ApplicationState.doCommit.  saveOk: deliverTxTree.SaveVersion succeeds;
\* loadOk: checkTxTree.LoadVersion succeeds.  SaveVersion stores the working
\* state as the next version, LoadVersion replaces the working state by a
\* stored version.  An error of either makes Commit panic.
DoCommit(saveOk, loadOk) ==
  LET call == [NoCall EXCEPT !.op = "Commit", !.pre = Root(deliverTxTree),
                             !.mempool = checkTxTree]
  IN IF ~saveOk
     THEN /\ Panic
          /\ last' = [call EXCEPT !.res = "panic",
                                  !.calls = <<<<"SaveVersion", "error">>>>]
          /\ UNCHANGED <<blockHash, blockHeight, saved, checkTxTree, checkTxVersion>>
     ELSE /\ saved' = Append(saved, deliverTxTree)
          /\ blockHash' = Root(deliverTxTree)
          /\ blockHeight' = Len(saved) + 1
          /\ IF ~loadOk
             THEN /\ Panic
                  /\ last' = [call EXCEPT !.res = "panic",
                                !.calls = <<<<"SaveVersion", "ok">>,
                                            <<"LoadVersion", "error">>>>]
                  /\ UNCHANGED <<checkTxTree, checkTxVersion>>
             ELSE /\ checkTxTree' = saved'[blockHeight']
                  /\ checkTxVersion' = blockHeight'
                  /\ phase' = "begin"
                  /\ last' = [call EXCEPT !.res = "ok",
                                !.calls = <<<<"SaveVersion", "ok">>,
                                            <<"LoadVersion", "ok">>>>]

\* abciMux.Commit
Commit ==
  /\ phase = "commit"
  /\ notify.pc = "idle"
  /\ blockHeight < MaxHeight
  /\ \E saveOk \in BOOLEAN, loadOk \in BOOLEAN : DoCommit(saveOk, loadOk)
  /\ UNCHANGED <<muxVars, haltMode, deliverTxTree, epochs, txCount, registered,
                 watchVars>>
  /\ UNCHANGED appVars

(***************************************************************************)
(* CheckTx and the watchers of invalidated transactions.  A subscription   *)
(* holds its result channel, which is unbuffered: closed, whether the      *)
(* subscriber is blocked in a receive on it (waiting), the errors the      *)
(* subscriber received (got), whether it observed the close (sawClosed),   *)
(* the sends and closes the multiplexer performed on it, and whether its   *)
(* field mux is set, which it is until the subscriber calls Close.         *)
(***************************************************************************)
NewSub(h) == [txHash |-> h, closed |-> FALSE, waiting |-> FALSE, got |-> 0,
              sawClosed |-> FALSE, sends |-> 0, closes |-> 0, mux |-> TRUE]

\* abciMux.watchInvalidatedTx, when the hash has no subscription yet.
WatchInvalidatedTx(h) ==
  /\ phase # "crashed"
  /\ Len(subs) < MaxSubs
  /\ h \notin DOMAIN invalidatedTxs
  /\ subs' = Append(subs, NewSub(h))
  /\ invalidatedTxs' = invalidatedTxs @@ (h :> (Len(subs) + 1))
  /\ UNCHANGED <<muxVars, stateVars, epochs, phase, txCount, registered,
                 last, notify>>
  /\ UNCHANGED appVars

\* The subscriber receives from its channel: it takes the zero value at once
\* when the channel is closed, and blocks otherwise.
SubReceive(id) ==
  /\ phase # "crashed"
  /\ id \in 1..Len(subs)
  /\ ~subs[id].waiting
  /\ ~subs[id].sawClosed
  /\ subs' = IF subs[id].closed
             THEN [subs EXCEPT ![id].sawClosed = TRUE]
             ELSE [subs EXCEPT ![id].waiting = TRUE]
  /\ UNCHANGED <<muxVars, stateVars, epochs, phase, txCount, registered,
                 last, invalidatedTxs, notify>>
  /\ UNCHANGED appVars

\* A condition that holds for every failed CheckTx.
FailedAnyCheck(err, type) == err # None

\* The condition of CheckTx under which it looks for a subscriber to notify.
FailedRecheck(err, type) == err # None /\ type = "Recheck"

\* abciMux.CheckTx of one of the transactions txs, up to invalidatedTxs.Load.
CheckTx(txs) ==
  /\ phase \in {"begin", "txs", "commit"}
  /\ notify.pc = "idle"
  /\ txCount < MaxTxs
  /\ txCount' = txCount + 1
  /\ \E tx \in txs, type \in {"New", "Recheck"}, answer \in Answers :
       LET r == ExecuteTx(checkTxTree, tx, answer)
           found == FailedRecheck(r.err, type) /\ tx.hash \in DOMAIN invalidatedTxs
       IN /\ checkTxTree' = r.tree
          /\ notify' = IF found
                       THEN [pc |-> "send", sub |-> invalidatedTxs[tx.hash],
                             hash |-> tx.hash]
                       ELSE Idle
          /\ last' = [NoCall EXCEPT !.op = "CheckTx",
                                    !.res = IF r.err = None THEN "ok" ELSE r.err,
                                    !.calls = r.calls,
                                    !.tx = tx,
                                    !.type = type,
                                    !.failed = r.failed,
                                    !.watcher = IF found THEN invalidatedTxs[tx.hash] ELSE 0]
  /\ UNCHANGED <<muxVars, haltMode, blockHeight, blockHash, deliverTxTree,
                 checkTxVersion, saved, epochs, phase, registered,
                 invalidatedTxs, subs>>
  /\ UNCHANGED appVars

\* A plain send, which waits for the subscriber to receive.
NotifySendBlocking ==
  /\ notify.pc = "send"
  /\ subs[notify.sub].waiting
  /\ subs' = [subs EXCEPT ![notify.sub].waiting = FALSE,
                          ![notify.sub].got = @ + 1,
                          ![notify.sub].sends = @ + 1]
  /\ notify' = [notify EXCEPT !.pc = "close"]
  /\ UNCHANGED <<muxVars, stateVars, epochs, phase, txCount, registered,
                 last, invalidatedTxs>>
  /\ UNCHANGED appVars

\* select { case sub.resultCh <- err: default: }
\* The send happens only when the subscriber is blocked in a receive.
NotifySend ==
  /\ notify.pc = "send"
  /\ subs' = IF subs[notify.sub].waiting
             THEN [subs EXCEPT ![notify.sub].waiting = FALSE,
                               ![notify.sub].got = @ + 1,
                               ![notify.sub].sends = @ + 1]
             ELSE [subs EXCEPT ![notify.sub].sends = @ + 1]
  /\ notify' = [notify EXCEPT !.pc = "close"]
  /\ UNCHANGED <<muxVars, stateVars, epochs, phase, txCount, registered,
                 last, invalidatedTxs>>
  /\ UNCHANGED appVars

\* close(sub.resultCh): a blocked receiver wakes up and sees the channel closed;
\* closing a closed channel panics.
NotifyClose ==
  /\ notify.pc = "close"
  /\ IF subs[notify.sub].closed
     THEN /\ Panic
          /\ UNCHANGED subs
     ELSE /\ subs' = [subs EXCEPT
                        ![notify.sub].closed = TRUE,
                        ![notify.sub].closes = @ + 1,
                        ![notify.sub].sawClosed = subs[notify.sub].waiting,
                        ![notify.sub].waiting = FALSE]
          /\ UNCHANGED phase
  /\ notify' = [notify EXCEPT !.pc = "delete"]
  /\ UNCHANGED <<muxVars, stateVars, epochs, txCount, registered, last,
                 invalidatedTxs>>
  /\ UNCHANGED appVars

\* mux.invalidatedTxs.Delete(txHash), and CheckTx returns its response.
NotifyDelete ==
  /\ notify.pc = "delete"
  /\ phase # "crashed"
  /\ invalidatedTxs' = [h \in DOMAIN invalidatedTxs \ {notify.hash} |-> invalidatedTxs[h]]
  /\ notify' = Idle
  /\ UNCHANGED <<muxVars, stateVars, epochs, phase, txCount, registered,
                 last, subs>>
  /\ UNCHANGED appVars

\* invalidatedTxSubscription.Close of the subscription id, called by the
\* subscriber on a thread of its own.
SubscriptionClose(id) ==
  /\ phase # "crashed"
  /\ id \in 1..Len(subs)
  /\ subs[id].mux
  /\ invalidatedTxs' = [h \in DOMAIN invalidatedTxs \ {subs[id].txHash} |->
                          invalidatedTxs[h]]
  /\ subs' = [subs EXCEPT ![id].mux = FALSE]
  /\ UNCHANGED <<muxVars, stateVars, epochs, phase, txCount, registered,
                 last, notify>>
  /\ UNCHANGED appVars

(***************************************************************************)
(* The transaction handlers of the registry application.                   *)
(***************************************************************************)
\* What a handler returns: its error, the state it leaves, its events and
\* the runtime maintenance operations it charged as gas; gas counts its
\* other calls of UseGas that went through.
Return(err, st, events) ==
  [err |-> err, state |-> st, events |-> events, feeCount |-> 0, gas |-> 0]

\* The return r after count calls of ctx.Gas().UseGas that returned nil.
UseGas(count, r) == [r EXCEPT !.gas = @ + count]

\* A return after UseGas has charged count maintenance operations.
Charged(r, count) == [r EXCEPT !.feeCount = count]

\* registerEntity that registers the entity afresh: the nodes of an entity
\* registered before are dropped.
RegisterEntityAfresh(st, mode, id, txSigner, fault) ==
  IF fault = "verify" THEN Return("ErrInvalidArgument", st, <<>>)
  ELSE IF mode = "CheckTx" THEN Return(None, st, <<>>)
  ELSE IF fault = "gas" THEN Return("ErrOutOfGas", st, <<>>)
  ELSE UseGas(2,
    IF fault = "entityStake" THEN Return("ErrInsufficientStake", st, <<>>)
    ELSE IF mode # "InitChain" /\ id # txSigner
    THEN Return("ErrIncorrectTxSigner", st, <<>>)
    ELSE LET kept == {n \in DOMAIN st.nodes : st.nodes[n].EntityID # id}
         IN Return(None,
                   [SetEntity(st, id) EXCEPT
                      !.nodes = [n \in kept |-> st.nodes[n]],
                      !.nodeStatus = [n \in kept \cap DOMAIN st.nodeStatus |->
                                        st.nodeStatus[n]]],
                   <<Event("EntityRegistered", id)>>))

\* registerEntity by the entity id, in a transaction signed by txSigner
RegisterEntityResult(st, mode, id, txSigner, fault) ==
  IF fault = "verify" THEN Return("ErrInvalidArgument", st, <<>>)
  ELSE IF mode = "CheckTx" THEN Return(None, st, <<>>)
  ELSE IF fault = "gas" THEN Return("ErrOutOfGas", st, <<>>)
  ELSE UseGas(2,
    IF fault = "entityStake" THEN Return("ErrInsufficientStake", st, <<>>)
    ELSE IF mode # "InitChain" /\ id # txSigner
    THEN Return("ErrIncorrectTxSigner", st, <<>>)
    ELSE Return(None, SetEntity(st, id), <<Event("EntityRegistered", id)>>))

\* deregisterEntity in a transaction signed by the entity id
DeregisterEntityAlways(st, mode, id, fault) ==
  IF mode = "CheckTx" THEN Return(None, st, <<>>)
  ELSE IF fault = "gas" THEN Return("ErrOutOfGas", st, <<>>)
  ELSE UseGas(1,
    IF id \notin st.entities THEN Return("ErrNoSuchEntity", st, <<>>)
    ELSE Return(None, RemoveEntity(st, id), <<Event("EntityDeregistered", id)>>))

DeregisterEntityResult(st, mode, id, fault) ==
  IF mode = "CheckTx" THEN Return(None, st, <<>>)
  ELSE IF fault = "gas" THEN Return("ErrOutOfGas", st, <<>>)
  ELSE UseGas(1,
    IF HasEntityNodes(st, id) THEN Return("ErrEntityHasNodes", st, <<>>)
    ELSE IF id \notin st.entities THEN Return("ErrNoSuchEntity", st, <<>>)
    ELSE Return(None, RemoveEntity(st, id), <<Event("EntityDeregistered", id)>>))

\* The loop of registerNode over newNode.Runtimes: the first runtime that
\* cannot be loaded or whose whitelist lacks the entity ends it.
RECURSIVE CheckWhitelist(_, _, _)
CheckWhitelist(st, n, i) ==
  IF i > Len(n.Runtimes) THEN None
  ELSE LET id == n.Runtimes[i]
       IN IF ~HasRuntime(st, id) THEN "ErrNoSuchRuntime"
          ELSE IF /\ ~AdmissionPolicy(id).AnyNode
                  /\ n.EntityID \notin AdmissionPolicy(id).Entities
          THEN "ErrForbidden"
          ELSE CheckWhitelist(st, n, i + 1)

\* Maintenance epochs without a credit for the epochs already paid.
AdditionalEpochsNoCredit(st, n, epoch) == n.Expiration - epoch

\* The maintenance epochs registerNode charges for: the epochs up to the
\* expiration, less the epochs a live node has already paid.
AdditionalEpochs(st, n, epoch) ==
  LET isNewNode == n.ID \notin DOMAIN st.nodes
      isExpiredNode == ~isNewNode /\ IsExpired(st.nodes[n.ID], epoch)
      additionalEpochs == n.Expiration - epoch
  IN IF ~isNewNode /\ ~isExpiredNode
     THEN LET remainingEpochs == st.nodes[n.ID].Expiration - epoch
          IN IF additionalEpochs > remainingEpochs
             THEN additionalEpochs - remainingEpochs ELSE 0
     ELSE additionalEpochs

\* feeCount of registerNode: a maintenance operation for each paid runtime
\* and additional epoch.
FeeCount(st, n, epoch) == Len(n.Runtimes) * AdditionalEpochs(st, n, epoch)

\* registerNode after the checkpoint, up to the loop that resumes runtimes:
\* ok is false at an error return.
NodeWrites(st, n, epoch, fault) ==
  LET isNewNode == n.ID \notin DOMAIN st.nodes
      isExpiredNode == ~isNewNode /\ IsExpired(st.nodes[n.ID], epoch)
      stop(e, s) == [ok |-> FALSE, err |-> e, state |-> s, events |-> <<>>]
      go(s) == [ok |-> TRUE, err |-> None, state |-> s, events |-> <<>>]
  IN IF isNewNode \/ isExpiredNode
     THEN IF fault = "nodeStake" THEN stop("ErrInsufficientStake", st)
          ELSE IF fault = "setNode" THEN stop("ErrBadEntityForNode", st)
          ELSE LET s1 == SetNode(st, n)
               IN IF ~isNewNode /\ fault = "nodeStatus"
                  THEN stop("ErrInvalidArgument", s1)
                  ELSE IF fault = "setNodeStatus"
                  THEN stop("ErrInvalidArgument", s1)
                  ELSE go(SetNodeStatus(s1, n.ID,
                            IF isNewNode THEN NewNodeStatus
                            ELSE [st.nodeStatus[n.ID] EXCEPT
                                    !.ExpirationProcessed = FALSE]))
     ELSE IF fault = "nodeStake" THEN stop("ErrInsufficientStake", st)
          ELSE IF VerifyNodeUpdate(st.nodes[n.ID], n) # None
          THEN stop(VerifyNodeUpdate(st.nodes[n.ID], n), st)
          ELSE IF fault = "setNode" THEN stop("ErrBadEntityForNode", st)
          ELSE go(SetNode(st, n))

\* The loop of registerNode over paidRuntimes, from the i-th on: the call
\* of ResumeRuntime for the failAt-th returns an error of the state tree.
RECURSIVE ResumeRuntimes(_, _, _, _)
ResumeRuntimes(r, paid, failAt, i) ==
  IF i > Len(paid) THEN r
  ELSE IF i = failAt
  THEN [r EXCEPT !.ok = FALSE, !.err = "ErrResumeRuntime"]
  ELSE LET res == ResumeRuntime(r.state, paid[i])
       IN IF res.err = None
          THEN ResumeRuntimes([r EXCEPT !.state = res.state,
                                        !.events = Append(@, Event("RuntimeRegistered", paid[i]))],
                              paid, failAt, i + 1)
          ELSE ResumeRuntimes(r, paid, failAt, i + 1)

\* The deferred function of registerNode: without ok the state goes back
\* to the checkpoint sc.
DeferredKeep(sc, r) == r

Deferred(sc, r) == IF ~r.ok THEN [r EXCEPT !.state = Rollback(sc)] ELSE r

\* A lookup of the owning entity that finds every entity.
NoOwningEntityIgnored(st, n) == FALSE

\* registerNode's lookup of the entity the descriptor names as its owner
\* returns an error.
NoOwningEntity(st, n) == n.EntityID \notin st.entities

\* registerNode for the descriptor n signed by sigKey, in a transaction
\* signed by txSigner; epoch is the answer of GetEpoch for the next height.
RegisterNodeResult(st, mode, n, sigKey, txSigner, epoch, fault, failAt) ==
  IF mode = "CheckTx" THEN Return(None, st, <<>>)
  ELSE IF NoOwningEntity(st, n) THEN Return("ErrNoSuchEntity", st, <<>>)
  ELSE IF sigKey = n.EntityID /\ fault = "gas" THEN Return("ErrOutOfGas", st, <<>>)
  ELSE UseGas(IF sigKey = n.EntityID THEN 1 ELSE 0,
    IF mode # "InitChain" /\ sigKey # txSigner
    THEN Return("ErrIncorrectTxSigner", st, <<>>)
    ELSE IF CheckWhitelist(st, n, 1) # None
    THEN Return(CheckWhitelist(st, n, 1), st, <<>>)
    ELSE IF fault = "entityStake" THEN Return("ErrInsufficientStake", st, <<>>)
    ELSE IF n.Expiration <= epoch THEN Return("ErrNodeExpired", st, <<>>)
    ELSE IF fault = "nodeQuery" THEN Return("ErrInvalidArgument", st, <<>>)
    ELSE IF fault = "maintenanceGas" /\ FeeCount(st, n, epoch) > 0
    THEN Return("ErrOutOfGas", st, <<>>)
    ELSE LET sc == st
             w == NodeWrites(st, n, epoch, fault)
             r == Deferred(sc, IF w.ok THEN ResumeRuntimes(w, n.Runtimes, failAt, 1)
                                       ELSE w)
         IN Charged(IF r.ok
                    THEN Return(None, r.state,
                                Append(r.events, Event("NodeRegistered", n.ID)))
                    ELSE Return(r.err, r.state, r.events),
                    FeeCount(st, n, epoch)))

\* A registerRuntime that stores every runtime as an active one.
RegisterRuntimeResultActive(st, mode, id, sigKey, txSigner, fault) ==
  IF fault = "verify" THEN Return("ErrInvalidArgument", st, <<>>)
  ELSE IF mode = "CheckTx" THEN Return(None, st, <<>>)
  ELSE IF fault = "gas" THEN Return("ErrOutOfGas", st, <<>>)
  ELSE UseGas(1,
    IF mode # "InitChain" /\ sigKey # txSigner
    THEN Return("ErrIncorrectTxSigner", st, <<>>)
    ELSE IF fault = "setRuntime" THEN Return("ErrBadEntityForRuntime", st, <<>>)
    ELSE Return(None, SetRuntime(st, id, FALSE), <<Event("RuntimeRegistered", id)>>))

\* registerRuntime for the runtime id signed by sigKey
RegisterRuntimeResult(st, mode, id, sigKey, txSigner, fault) ==
  IF fault = "verify" THEN Return("ErrInvalidArgument", st, <<>>)
  ELSE IF mode = "CheckTx" THEN Return(None, st, <<>>)
  ELSE IF fault = "gas" THEN Return("ErrOutOfGas", st, <<>>)
  ELSE UseGas(1,
    IF mode # "InitChain" /\ sigKey # txSigner
    THEN Return("ErrIncorrectTxSigner", st, <<>>)
    ELSE LET suspended == ~HasRuntime(st, id) /\ HasSuspendedRuntime(st, id)
         IN IF fault = "setRuntime" THEN Return("ErrBadEntityForRuntime", st, <<>>)
            ELSE Return(None, SetRuntime(st, id, suspended),
                        IF suspended THEN <<>>
                        ELSE <<Event("RuntimeRegistered", id)>>))

RegCall(op, mode, r, n, id, fault) ==
  [op |-> op, mode |-> mode, err |-> r.err, events |-> r.events, node |-> n,
   id |-> id, fault |-> fault, feeCount |-> r.feeCount, gas |-> r.gas]

\* The handlers run on the thread of the multiplexer, one at a time.  modes
\* are the modes of the context of the call; with faults, calls of the gas
\* accountant, the stake cache and the state tree may return an error.
RegisterEntity(modes, faults) ==
  \E mode \in modes, id \in Entities, txSigner \in Entities,
     fault \in {None} \cup ({"verify", "gas", "entityStake"} \cap faults) :
    LET r == RegisterEntityResult(registryState, mode, id, txSigner, fault)
    IN /\ registryState' = r.state
       /\ regLast' = RegCall("registerEntity", mode, r, NoNode, id, fault)
       /\ UNCHANGED <<regEpoch, regHeightEpoch, nonRegVars>>

DeregisterEntity(modes, faults) ==
  \E mode \in modes, id \in Entities, fault \in {None} \cup ({"gas"} \cap faults) :
    LET r == DeregisterEntityResult(registryState, mode, id, fault)
    IN /\ registryState' = r.state
       /\ regLast' = RegCall("deregisterEntity", mode, r, NoNode, id, fault)
       /\ UNCHANGED <<regEpoch, regHeightEpoch, nonRegVars>>

\* An epoch that is asked for at the height of the context.
NodeEpochAtHeight == regHeightEpoch

\* app.state.GetEpoch(ctx.Ctx(), ctx.BlockHeight()+1), the epoch registerNode
\* works with.
NodeEpoch == regEpoch

\* The descriptor is signed by the entity of the node, the transaction by
\* the entity or by the node; where calls may fail, at most one call fails,
\* one that the handler reaches, and the transaction is signed by the entity.
RegisterNode(modes, faults) ==
  \E mode \in modes, n \in Nodes, fault \in {None} \cup (faults \ {"resume"}) :
    \E txSigner \in IF faults = {} THEN {n.EntityID, n.ID} ELSE {n.EntityID},
       failAt \in 0..(IF "resume" \in faults /\ fault = None
                      THEN Len(n.Runtimes) ELSE 0) :
      LET r == RegisterNodeResult(registryState, mode, n, n.EntityID, txSigner,
                                  NodeEpoch, fault, failAt)
          r0 == RegisterNodeResult(registryState, mode, n, n.EntityID, txSigner,
                                   NodeEpoch, None, 0)
      IN /\ (fault # None \/ failAt # 0) => r # r0
         /\ registryState' = r.state
         /\ regLast' = RegCall("registerNode", mode, r, n, n.EntityID,
                               IF failAt # 0 THEN "resume" ELSE fault)
         /\ UNCHANGED <<regEpoch, regHeightEpoch, nonRegVars>>

RegisterRuntime(modes, faults) ==
  \E mode \in modes, id \in RuntimeIDs, txSigner \in Entities,
     fault \in {None} \cup ({"verify", "gas", "setRuntime"} \cap faults) :
    LET r == RegisterRuntimeResult(registryState, mode, id, "A", txSigner, fault)
    IN /\ registryState' = r.state
       /\ regLast' = RegCall("registerRuntime", mode, r, NoNode, id, fault)
       /\ UNCHANGED <<regEpoch, regHeightEpoch, nonRegVars>>

\* An unfreezeNode that has no return for the check-only mode.
UnfreezeNodeResultUnchecked(st, mode, id, txSigner, epoch, fault) ==
  IF fault = "gas" THEN Return("ErrOutOfGas", st, <<>>)
  ELSE UseGas(1,
    IF id \notin DOMAIN st.nodes THEN Return("ErrNoSuchNode", st, <<>>)
    ELSE IF txSigner # st.nodes[id].EntityID
    THEN Return("ErrBadEntityForNode", st, <<>>)
    ELSE IF id \notin DOMAIN st.nodeStatus THEN Return("ErrNoSuchNode", st, <<>>)
    ELSE IF st.nodeStatus[id].FreezeEndTime > epoch
    THEN Return("ErrNodeCannotBeUnfrozen", st, <<>>)
    ELSE Return(None,
                SetNodeStatus(st, id, [st.nodeStatus[id] EXCEPT !.FreezeEndTime = 0]),
                <<Event("NodeUnfrozen", id)>>))

\* unfreezeNode for the node id in a transaction signed by txSigner; epoch
\* is the answer of GetEpoch for the next height.
UnfreezeNodeResult(st, mode, id, txSigner, epoch, fault) ==
  IF mode = "CheckTx" THEN Return(None, st, <<>>)
  ELSE IF fault = "gas" THEN Return("ErrOutOfGas", st, <<>>)
  ELSE UseGas(1,
    IF id \notin DOMAIN st.nodes THEN Return("ErrNoSuchNode", st, <<>>)
    ELSE IF txSigner # st.nodes[id].EntityID
    THEN Return("ErrBadEntityForNode", st, <<>>)
    ELSE IF id \notin DOMAIN st.nodeStatus THEN Return("ErrNoSuchNode", st, <<>>)
    ELSE IF st.nodeStatus[id].FreezeEndTime > epoch
    THEN Return("ErrNodeCannotBeUnfrozen", st, <<>>)
    ELSE Return(None,
                SetNodeStatus(st, id, [st.nodeStatus[id] EXCEPT !.FreezeEndTime = 0]),
                <<Event("NodeUnfrozen", id)>>))

UnfreezeNode(modes, faults) ==
  \E mode \in modes, id \in NodeIDs, txSigner \in Entities,
     fault \in {None} \cup ({"gas"} \cap faults) :
    LET r == UnfreezeNodeResult(registryState, mode, id, txSigner, NodeEpoch, fault)
    IN /\ registryState' = r.state
       /\ regLast' = RegCall("unfreezeNode", mode, r, NoNode, id, fault)
       /\ UNCHANGED <<regEpoch, regHeightEpoch, nonRegVars>>

\* The freezing of a node that is not frozen, until the epoch e.
FreezeNode ==
  \E id \in DOMAIN registryState.nodeStatus, e \in 1..MaxEpoch :
    /\ registryState.nodeStatus[id].FreezeEndTime = 0
    /\ registryState' =
         SetNodeStatus(registryState, id,
                       [registryState.nodeStatus[id] EXCEPT !.FreezeEndTime = e])
    /\ regLast' = [NoRegCall EXCEPT !.op = "freezeNode", !.id = id]
    /\ UNCHANGED <<regEpoch, regHeightEpoch, nonRegVars>>

\* The suspension of a runtime at the end of a round or an epoch.
SuspendRuntime ==
  \E id \in registryState.runtimes :
    /\ registryState' = [registryState EXCEPT !.runtimes = @ \ {id},
                                              !.suspendedRuntimes = @ \cup {id}]
    /\ regLast' = [NoRegCall EXCEPT !.op = "suspendRuntime", !.id = id]
    /\ UNCHANGED <<regEpoch, regHeightEpoch, nonRegVars>>

\* The epoch transition, in the first block of an epoch: the expiration of
\* the nodes that have expired is processed once.
EpochTransition ==
  /\ regEpoch < MaxEpoch
  /\ regEpoch' = regEpoch + 1
  /\ regHeightEpoch' = regEpoch
  /\ registryState' =
       [registryState EXCEPT !.nodeStatus =
          [i \in DOMAIN registryState.nodeStatus |->
             IF IsExpired(registryState.nodes[i], regEpoch + 1)
             THEN [registryState.nodeStatus[i] EXCEPT !.ExpirationProcessed = TRUE]
             ELSE registryState.nodeStatus[i]]]
  /\ regLast' = [NoRegCall EXCEPT !.op = "epochTransition"]
  /\ UNCHANGED nonRegVars

\* A block that is not the first of its epoch.
NextBlock ==
  /\ regHeightEpoch # regEpoch
  /\ regHeightEpoch' = regEpoch
  /\ regLast' = [NoRegCall EXCEPT !.op = "nextBlock"]
  /\ UNCHANGED <<registryState, regEpoch, nonRegVars>>

(***************************************************************************)
(* The key manager application (apps/keymanager): at an epoch transition   *)
(* it recomputes the status of every key manager runtime from the sorted   *)
(* node list, stores the statuses that are new or changed and emits them   *)
(* in one event.                                                           *)
(***************************************************************************)
\* registry.SortNodeList: the nodes by their id
RECURSIVE SortNodeList(_)
SortNodeList(nodes) ==
  IF nodes = <<>> THEN <<>>
  ELSE LET i == CHOOSE k \in 1..Len(nodes) :
                  \A j \in (1..Len(nodes)) \ {k} : StrLess(nodes[k].ID, nodes[j].ID)
       IN <<nodes[i]>> \o
          SortNodeList(SubSeq(nodes, 1, i - 1) \o SubSeq(nodes, i + 1, Len(nodes)))

\* api.VerifyExtraInfo: the init response of a node runtime's extra info, or
\* an error when its signature or its timestamp is not accepted
VerifyExtraInfo(kmrt, nodeRt) ==
  IF nodeRt.ExtraInfo.Valid
  THEN [err |-> None, initResponse |-> nodeRt.ExtraInfo]
  ELSE [err |-> "ErrInvalidExtraInfo", initResponse |-> nodeRt.ExtraInfo]

\* the body of generateStatus's loop without the comparison of the node's
\* checksum with the checksum of an initialized status
GenerateStatusNodeLax(kmrt, status, policyHash, n) ==
  LET idx == {i \in 1..Len(n.Runtimes) : n.Runtimes[i].ID = kmrt.ID}
  IN IF ~n.KM THEN status
     ELSE IF idx = {} THEN status
     ELSE
       LET nodeRt == n.Runtimes[CHOOSE i \in idx : \A j \in idx : i <= j]
           teeOk == IF nodeRt.TEE = None
                    THEN kmrt.TEEHardware = "TEEHardwareInvalid"
                    ELSE kmrt.TEEHardware = nodeRt.TEE
           v == VerifyExtraInfo(kmrt, nodeRt)
           initResponse == v.initResponse
           len == Len(initResponse.PolicyChecksum)
           nodePolicyHash == IF len = 0 THEN emptyHashSha3
                             ELSE initResponse.PolicyChecksum
       IN IF ~teeOk THEN status
          ELSE IF v.err # None THEN status
          ELSE IF len # 0 /\ len # ChecksumSize THEN status
          ELSE IF policyHash # nodePolicyHash THEN status
          ELSE IF status.IsInitialized
          THEN IF initResponse.IsSecure # status.IsSecure THEN status
               ELSE [status EXCEPT !.Nodes = Append(@, n.ID)]
          ELSE IF initResponse.IsSecure # status.IsSecure /\ ~initResponse.IsSecure
               THEN status
               ELSE [status EXCEPT !.IsSecure = initResponse.IsSecure,
                                   !.IsInitialized = TRUE,
                                   !.Checksum = initResponse.Checksum,
                                   !.Nodes = Append(@, n.ID)]

\* the body of generateStatus's loop: the status after the node n
GenerateStatusNode(kmrt, status, policyHash, n) ==
  LET idx == {i \in 1..Len(n.Runtimes) : n.Runtimes[i].ID = kmrt.ID}
  IN IF ~n.KM THEN status
     ELSE IF idx = {} THEN status
     ELSE
       LET nodeRt == n.Runtimes[CHOOSE i \in idx : \A j \in idx : i <= j]
           teeOk == IF nodeRt.TEE = None
                    THEN kmrt.TEEHardware = "TEEHardwareInvalid"
                    ELSE kmrt.TEEHardware = nodeRt.TEE
           v == VerifyExtraInfo(kmrt, nodeRt)
           initResponse == v.initResponse
           len == Len(initResponse.PolicyChecksum)
           nodePolicyHash == IF len = 0 THEN emptyHashSha3
                             ELSE initResponse.PolicyChecksum
       IN IF ~teeOk THEN status
          ELSE IF v.err # None THEN status
          ELSE IF len # 0 /\ len # ChecksumSize THEN status
          ELSE IF policyHash # nodePolicyHash THEN status
          ELSE IF status.IsInitialized
          THEN IF initResponse.IsSecure # status.IsSecure THEN status
               ELSE IF initResponse.Checksum # status.Checksum THEN status
               ELSE [status EXCEPT !.Nodes = Append(@, n.ID)]
          ELSE IF initResponse.IsSecure # status.IsSecure /\ ~initResponse.IsSecure
               THEN status
               ELSE [status EXCEPT !.IsSecure = initResponse.IsSecure,
                                   !.IsInitialized = TRUE,
                                   !.Checksum = initResponse.Checksum,
                                   !.Nodes = Append(@, n.ID)]

RECURSIVE GenerateStatusFrom(_, _, _, _, _)
GenerateStatusFrom(kmrt, status, policyHash, nodes, i) ==
  IF i > Len(nodes) THEN status
  ELSE GenerateStatusFrom(kmrt, GenerateStatusNode(kmrt, status, policyHash, nodes[i]),
                          policyHash, nodes, i + 1)

\* A generateStatus that starts from a status that is not initialized.
GenerateStatusAfresh(kmrt, oldStatus, nodes) ==
  LET status == [ID |-> kmrt.ID, IsInitialized |-> FALSE,
                 IsSecure |-> FALSE, Checksum |-> None,
                 Policy |-> oldStatus.Policy, Nodes |-> <<>>]
      rawPolicy == IF status.Policy # NoPolicy THEN Marshal(status.Policy) ELSE <<>>
      policyHash == Sum256(rawPolicy)
  IN GenerateStatusFrom(kmrt, status, policyHash, nodes, 1)

\* generateStatus: the status of the runtime kmrt over the nodes, in their
\* order
GenerateStatus(kmrt, oldStatus, nodes) ==
  LET status == [ID |-> kmrt.ID, IsInitialized |-> oldStatus.IsInitialized,
                 IsSecure |-> oldStatus.IsSecure, Checksum |-> oldStatus.Checksum,
                 Policy |-> oldStatus.Policy, Nodes |-> <<>>]
      rawPolicy == IF status.Policy # NoPolicy THEN Marshal(status.Policy) ELSE <<>>
      policyHash == Sum256(rawPolicy)
  IN GenerateStatusFrom(kmrt, status, policyHash, nodes, 1)

\* MutableState.SetStatus
SetStatus(statuses, status) ==
  [id \in DOMAIN statuses \cup {status.ID} |->
     IF id = status.ID THEN status ELSE statuses[id]]

\* a condition that stores and emits every recomputed status
StatusUpdatedAlways(forceEmit, oldStatus, newStatus) == TRUE

\* onEpochChange's condition to store and emit a recomputed status
StatusUpdated(forceEmit, oldStatus, newStatus) ==
  forceEmit \/ Marshal(oldStatus) # Marshal(newStatus)

\* onEpochChange's loop from the i-th runtime on; the status query of the
\* failAt-th runtime fails
RECURSIVE EpochChangeFrom(_, _, _, _, _)
EpochChangeFrom(runtimes, nodes, r, failAt, i) ==
  IF i > Len(runtimes) THEN r
  ELSE
    LET rt == KmRuntime(runtimes[i])
        forceEmit == rt.ID \notin DOMAIN r.statuses
        oldStatus == IF forceEmit THEN NewStatus(rt.ID) ELSE r.statuses[rt.ID]
        newStatus == GenerateStatus(rt, oldStatus, nodes)
    IN IF rt.Kind # "KindKeyManager"
       THEN EpochChangeFrom(runtimes, nodes, r, failAt, i + 1)
       ELSE IF failAt = i
       THEN [r EXCEPT !.err = "failed to query key manager status"]
       ELSE IF StatusUpdated(forceEmit, oldStatus, newStatus)
       THEN EpochChangeFrom(runtimes, nodes,
                            [r EXCEPT !.statuses = SetStatus(@, newStatus),
                                      !.toEmit = Append(@, newStatus)],
                            failAt, i + 1)
       ELSE EpochChangeFrom(runtimes, nodes, r, failAt, i + 1)

\* onEpochChange over the registry's runtimes and nodes
OnEpochChangeResult(registry, statuses, failAt) ==
  LET nodes == SortNodeList(registry.nodes)
      r == EpochChangeFrom(registry.runtimes, nodes,
                           [err |-> None, statuses |-> statuses, toEmit |-> <<>>],
                           failAt, 1)
  IN [err |-> r.err, statuses |-> r.statuses, stored |-> r.toEmit,
      events |-> IF r.err = None /\ Len(r.toEmit) > 0
                 THEN <<[key |-> "KeyStatusUpdate",
                         value |-> [i \in 1..Len(r.toEmit) |-> Marshal(r.toEmit[i])]]>>
                 ELSE <<>>]

\* The genesis document sets the status of a key manager runtime.
KmGenesis ==
  /\ kmStatuses = <<>>
  /\ kmRegistry = [runtimes |-> <<>>, nodes |-> <<>>]
  /\ \E st \in GenesisStatuses :
        /\ kmStatuses' = SetStatus(kmStatuses, st)
        /\ kmRegistry' = [kmRegistry EXCEPT !.runtimes = <<st.ID>>]
  /\ kmLast' = NoKmCall
  /\ UNCHANGED nonKmVars

\* The registry gets a runtime; runtimes never expire.
KmRegisterRuntime ==
  /\ kmLast.err = None
  /\ \E id \in KmRuntimeIDs \ Range(kmRegistry.runtimes) :
        kmRegistry' = [kmRegistry EXCEPT !.runtimes = Append(@, id)]
  /\ kmLast' = NoKmCall
  /\ UNCHANGED <<kmStatuses, nonKmVars>>

\* The registry gets a node or the new descriptor of a node.
KmRegisterNode ==
  /\ kmLast.err = None
  /\ \E id \in KmNodeIDs, profile \in KmProfiles :
        LET n == KmNode(id, profile)
            at == {i \in 1..Len(kmRegistry.nodes) : kmRegistry.nodes[i].ID = id}
        IN /\ \A i \in at : kmRegistry.nodes[i] # n
           /\ kmRegistry' =
                [kmRegistry EXCEPT !.nodes =
                   IF at = {} THEN Append(@, n)
                   ELSE [i \in 1..Len(@) |-> IF i \in at THEN n ELSE @[i]]]
  /\ kmLast' = NoKmCall
  /\ UNCHANGED <<kmStatuses, nonKmVars>>

\* BeginBlock of the key manager application in a block that changes the
\* epoch; the multiplexer panics when the application returns an error.
OnEpochChange(failAts) ==
  /\ kmLast.err = None
  /\ \E failAt \in failAts \cup {0} :
        LET r == OnEpochChangeResult(kmRegistry, kmStatuses, failAt)
        IN /\ failAt # 0 => r.err # None
           /\ kmStatuses' = r.statuses
           /\ kmLast' = [op |-> "epochChange", err |-> r.err, events |-> r.events,
                         stored |-> {r.stored[i].ID : i \in 1..Len(r.stored)},
                         initialized |->
                           {id \in DOMAIN r.statuses :
                              /\ r.statuses[id].IsInitialized
                              /\ id \in DOMAIN kmStatuses => ~kmStatuses[id].IsInitialized}]
  /\ UNCHANGED <<kmRegistry, nonKmVars>>

(***************************************************************************)
(* The staking application's operations (after the specification, 4.4 and  *)
(* 4.6) and the sanity checks of its ledger (supplementarysanity).         *)
(***************************************************************************)
DebondingInterval == 1

RECURSIVE SumOver(_, _)
SumOver(S, f) ==
  IF S = {} THEN 0
  ELSE LET x == CHOOSE y \in S : TRUE IN f[x] + SumOver(S \ {x}, f)

\* the shares issued for amt tokens added to a pool: in proportion to the
\* pool, one per token for an empty pool
SharesForTokens(pool, amt) ==
  IF pool.Balance = 0 \/ pool.TotalShares = 0 THEN amt
  ELSE (amt * pool.TotalShares) \div pool.Balance

\* the tokens that shares of a pool redeem
TokensForShares(pool, shares) ==
  IF pool.TotalShares = 0 THEN 0
  ELSE (shares * pool.Balance) \div pool.TotalShares

PoolDeposit(pool, tokens, shares) ==
  [Balance |-> pool.Balance + tokens, TotalShares |-> pool.TotalShares + shares]

PoolWithdraw(pool, tokens, shares) ==
  [Balance |-> pool.Balance - tokens, TotalShares |-> pool.TotalShares - shares]

\* Transfer: from general balance to general balance
Transfer(st, from, to, amt) ==
  IF amt > st.accounts[from].General \/ from = to THEN st
  ELSE [st EXCEPT !.accounts[from].General = @ - amt,
                  !.accounts[to].General = @ + amt]

\* Add escrow: from the delegator's general balance into the active pool of
\* the escrow account, for shares in proportion
AddEscrow(st, delegator, escrow, amt) ==
  IF amt > st.accounts[delegator].General THEN st
  ELSE LET shares == SharesForTokens(st.accounts[escrow].Active, amt)
           debited == [st EXCEPT !.accounts[delegator].General = @ - amt]
       IN [debited EXCEPT
             !.accounts[escrow].Active = PoolDeposit(@, amt, shares),
             !.delegations[<<escrow, delegator>>] = @ + shares]

\* Reclaim escrow: shares of the active delegation become tokens of the
\* debonding pool and a debonding delegation that ends after the interval
ReclaimEscrow(st, epoch, delegator, escrow, shares) ==
  IF shares > st.delegations[<<escrow, delegator>>] THEN st
  ELSE LET acct == st.accounts[escrow]
           tokens == TokensForShares(acct.Active, shares)
           debShares == SharesForTokens(acct.Debonding, tokens)
       IN [st EXCEPT
             !.accounts[escrow].Active = PoolWithdraw(@, tokens, shares),
             !.accounts[escrow].Debonding = PoolDeposit(@, tokens, debShares),
             !.delegations[<<escrow, delegator>>] = @ - shares,
             !.debondingDelegations[<<escrow, delegator>>] =
                [Shares |-> @.Shares + debShares,
                 EndEpoch |-> epoch + DebondingInterval]]

\* the debonding delegations that end at the epoch or before it
Ended(st, epoch) ==
  {p \in DOMAIN st.debondingDelegations :
     /\ st.debondingDelegations[p].Shares > 0
     /\ st.debondingDelegations[p].EndEpoch <= epoch}

\* Debonding completion: every ended debonding delegation is redeemed
\* against the debonding pool into the delegator's general balance
RECURSIVE DebondingCompletion(_, _)
DebondingCompletion(st, epoch) ==
  IF Ended(st, epoch) = {} THEN st
  ELSE LET p == CHOOSE q \in Ended(st, epoch) : TRUE
           shares == st.debondingDelegations[p].Shares
           tokens == TokensForShares(st.accounts[p[1]].Debonding, shares)
           redeemed == [st EXCEPT
                          !.accounts[p[1]].Debonding = PoolWithdraw(@, tokens, shares),
                          !.debondingDelegations[p] = [Shares |-> 0, EndEpoch |-> 0]]
       IN DebondingCompletion(
            [redeemed EXCEPT !.accounts[p[2]].General = @ + tokens], epoch)

\* AuthenticateTx: the fee goes from the payer to the block fee pool
DeductFee(st, payer, fee) ==
  IF fee > st.accounts[payer].General THEN st
  ELSE [st EXCEPT !.accounts[payer].General = @ - fee,
                  !.lastBlockFees = @ + fee]

\* EndBlock: the block fee pool is drained into the common pool
DrainFeePool(st) ==
  [st EXCEPT !.commonPool = @ + st.lastBlockFees, !.lastBlockFees = 0]

\* quantity.Quantity.IsValid
IsValid(q) == q >= 0

\* staking.SanityCheckAccount: the balances are valid, and added to total
SanityCheckAccount(total, acct) ==
  IF ~IsValid(acct.General) \/ ~IsValid(acct.Active.Balance)
     \/ ~IsValid(acct.Debonding.Balance)
  THEN [err |-> "invalid balance", total |-> total]
  ELSE [err |-> None,
        total |-> total + acct.General + acct.Active.Balance + acct.Debonding.Balance]

RECURSIVE SanityCheckAccounts(_, _, _)
SanityCheckAccounts(r, st, ids) ==
  IF ids = {} \/ r.err # None THEN r
  ELSE LET id == CHOOSE a \in ids : TRUE
       IN SanityCheckAccounts(SanityCheckAccount(r.total, st.accounts[id]), st,
                              ids \ {id})

\* the first part of checkStaking without the fees of the last block
CheckSupplyWithoutFees(st) ==
  LET r == SanityCheckAccounts([err |-> None, total |-> 0], st, DOMAIN st.accounts)
  IN IF ~IsValid(st.totalSupply) THEN "total supply is invalid"
     ELSE IF ~IsValid(st.commonPool) THEN "common pool is invalid"
     ELSE IF r.err # None THEN r.err
     ELSE IF r.total + st.commonPool # st.totalSupply
     THEN "balances in accounts plus common pool does not add up to total supply"
     ELSE None

\* checkStaking, its first part: the accounts, the common pool and the fees
\* of the last block add up to the total supply
CheckSupply(st) ==
  LET r == SanityCheckAccounts([err |-> None, total |-> 0], st, DOMAIN st.accounts)
      total == r.total + st.commonPool + st.lastBlockFees
  IN IF ~IsValid(st.totalSupply) THEN "total supply is invalid"
     ELSE IF ~IsValid(st.commonPool) THEN "common pool is invalid"
     ELSE IF r.err # None THEN r.err
     ELSE IF ~IsValid(st.lastBlockFees) THEN "common pool is invalid"
     ELSE IF total # st.totalSupply
     THEN "balances in accounts plus common pool does not add up to total supply"
     ELSE None

\* the delegations to the account, by delegator
DelegationsTo(st, acct) ==
  [d \in StakeAccounts |-> st.delegations[<<acct, d>>]]

DebondingDelegationsTo(st, acct) ==
  [d \in StakeAccounts |-> st.debondingDelegations[<<acct, d>>].Shares]

\* staking.SanityCheckDelegations
SanityCheckDelegations(acct, delegations) ==
  SumOver(DOMAIN delegations, delegations) = acct.Active.TotalShares

\* staking.SanityCheckDebondingDelegations
SanityCheckDebondingDelegations(acct, delegations) ==
  SumOver(DOMAIN delegations, delegations) = acct.Debonding.TotalShares

\* the second part of checkStaking with the debonding delegations compared
\* with the active pool
CheckSharesOfActive(st) ==
  IF \E a \in DOMAIN st.accounts :
        ~SanityCheckDelegations(st.accounts[a], DelegationsTo(st, a))
  THEN "SanityCheckDelegations"
  ELSE IF \E a \in DOMAIN st.accounts :
        ~SanityCheckDelegations(st.accounts[a], DebondingDelegationsTo(st, a))
  THEN "SanityCheckDebondingDelegations"
  ELSE None

\* checkStaking, its second part: for every account the delegations add up
\* to the total shares of the active pool and the debonding delegations to
\* the total shares of the debonding pool
CheckShares(st) ==
  IF \E a \in DOMAIN st.accounts :
        ~SanityCheckDelegations(st.accounts[a], DelegationsTo(st, a))
  THEN "SanityCheckDelegations"
  ELSE IF \E a \in DOMAIN st.accounts :
        ~SanityCheckDebondingDelegations(st.accounts[a], DebondingDelegationsTo(st, a))
  THEN "SanityCheckDebondingDelegations"
  ELSE None

\* checkStaking
checkStaking(st) ==
  IF CheckSupply(st) # None THEN CheckSupply(st) ELSE CheckShares(st)

\* A staking transaction of a block: its fee is deducted, then it transfers,
\* adds escrow or reclaims escrow.
StakingTx ==
  \E payer \in StakeAccounts, fee \in 0..1, other \in StakeAccounts,
     amt \in Amounts, method \in {"Transfer", "AddEscrow", "ReclaimEscrow"} :
     LET paid == DeductFee(stakingState, payer, fee)
     IN /\ stakingState' =
             CASE method = "Transfer" -> Transfer(paid, payer, other, amt)
               [] method = "AddEscrow" -> AddEscrow(paid, payer, other, amt)
               [] method = "ReclaimEscrow" ->
                    ReclaimEscrow(paid, stakingEpoch, payer, other, amt)
        /\ stakingState' # stakingState
        /\ UNCHANGED <<stakingEpoch, nonStakingVars>>

\* EndBlock of a block: the fees of the block go to the common pool.
StakingEndBlock ==
  /\ stakingState.lastBlockFees > 0
  /\ stakingState' = DrainFeePool(stakingState)
  /\ UNCHANGED <<stakingEpoch, nonStakingVars>>

\* The first block of a new epoch: debonding completes.
StakingEpochChange ==
  /\ stakingEpoch < MaxEpoch
  /\ stakingEpoch' = stakingEpoch + 1
  /\ stakingState' = DebondingCompletion(stakingState, stakingEpoch + 1)
  /\ UNCHANGED nonStakingVars

(***************************************************************************)
(* The scheduler's election of committees at an epoch transition (after    *)
(* the specification, 4.7).                                                *)
(***************************************************************************)
\* the kinds whose committee has a leader
LeaderKinds == {"KindComputeTxnScheduler"}

NeedsLeader(kind) == kind \in LeaderKinds

\* the role a node needs to be a candidate of a committee kind
RoleOf(kind) ==
  IF kind = "KindStorage" THEN "RoleStorageWorker" ELSE "RoleComputeWorker"

\* the group size and the backup size of a kind in a runtime descriptor
GroupSizes(rt, kind) ==
  CASE kind = "KindComputeExecutor" ->
         [size |-> rt.Executor.GroupSize, backup |-> rt.Executor.GroupBackupSize]
    [] kind = "KindComputeMerge" ->
         [size |-> rt.Merge.GroupSize, backup |-> rt.Merge.GroupBackupSize]
    [] kind = "KindComputeTxnScheduler" ->
         [size |-> rt.TxnScheduler.GroupSize, backup |-> 0]
    [] kind = "KindStorage" ->
         [size |-> rt.Storage.GroupSize, backup |-> 0]

KindTag(kind) ==
  CASE kind = "KindComputeExecutor" -> 0
    [] kind = "KindComputeMerge" -> 1
    [] kind = "KindComputeTxnScheduler" -> 2
    [] kind = "KindStorage" -> 3

\* the seed of an election, from the beacon of the epoch and the kind
Seed(beacon, kind) == beacon + KindTag(kind)

Swap(s, i, j) ==
  [k \in 1..Len(s) |-> IF k = i THEN s[j] ELSE IF k = j THEN s[i] ELSE s[k]]

\* Fisher-Yates from the i-th element down: the i-th element is exchanged
\* with one drawn from the first i by the cipher stream of the seed
RECURSIVE Shuffle(_, _, _)
Shuffle(s, stream, i) ==
  IF i < 2 THEN s
  ELSE Shuffle(Swap(s, i, (stream % i) + 1), stream \div i, i - 1)

\* step 6: the roles of the members, in their order
Role(kind, size, i) ==
  IF NeedsLeader(kind)
  THEN IF i = 1 THEN "Leader" ELSE IF i <= size THEN "Worker" ELSE "BackupWorker"
  ELSE "Worker"

\* the election of the committee of a kind (steps 1 to 7); no committee
\* with less candidates than the groups need
Elect(st, kind, epoch, beacon) ==
  LET candidates == {id \in st.nodes : RoleOf(kind) \in SchedulerNodes[id]}
      sorted == SortAddrs(candidates)
      shuffled == Shuffle(sorted, Seed(beacon, kind), Len(sorted))
      sizes == GroupSizes(st.runtime, kind)
      n == sizes.size + sizes.backup
  IN IF Len(shuffled) < n THEN NoCommittee
     ELSE [Kind |-> kind,
           Members |-> [i \in 1..n |->
                          [PublicKey |-> shuffled[i],
                           Role |-> Role(kind, sizes.size, i)]],
           ValidFor |-> epoch,
           Runtime |-> st.runtime]

\* A node registers for the runtime.
SchedulerRegisterNode ==
  /\ \E id \in DOMAIN SchedulerNodes \ schedulerState.nodes :
        schedulerState' = [schedulerState EXCEPT !.nodes = @ \cup {id}]
  /\ UNCHANGED nonSchedulerVars

\* The runtime is registered again, with other group sizes.
SchedulerRegisterRuntime ==
  /\ \E i \in DOMAIN TestRuntimes :
        /\ TestRuntimes[i] # schedulerState.runtime
        /\ schedulerState' = [schedulerState EXCEPT !.runtime = TestRuntimes[i]]
  /\ UNCHANGED nonSchedulerVars

\* EndBlock at an epoch boundary: the committees of the runtime are elected
\* with the beacon of the new epoch.
SchedulerEpochTransition ==
  /\ schedulerState.epoch < MaxEpoch
  /\ \E beacon \in 0..5 :
        schedulerState' =
          [schedulerState EXCEPT
             !.epoch = @ + 1,
             !.committees =
                [k \in CommitteeKinds |->
                   Elect(schedulerState, k, schedulerState.epoch + 1, beacon)]]
  /\ UNCHANGED nonSchedulerVars

(***************************************************************************)
(* Two multiplexers that are given applications in their own orders and    *)
(* then run the same blocks.                                               *)
(***************************************************************************)
InstanceApps == {"P1", "P2", "P4", "P5"}

\* abciMux.doRegister on the registry of the multiplexer m
DoRegister(m, app) ==
  IF Name(app) \in DOMAIN m.appsByName THEN m
  ELSE IF Blessed(app) /\ m.appBlessed # None THEN m
  ELSE LET byName == m.appsByName @@ (Name(app) :> app)
           added == AddMethods(m.appsByMethod, Methods(app), app)
           stored == [m EXCEPT !.appBlessed = IF Blessed(app) THEN app ELSE @,
                               !.appsByName = byName,
                               !.appsByMethod = added.map]
       IN IF added.ok
          THEN [stored EXCEPT !.appsByLexOrder = RebuildAppLexOrdering(byName),
                              !.registered = @ \cup {app}]
          ELSE stored

\* ApplicationServer.Register on the instance i
InstanceRegister(i) ==
  /\ ~instances[i].started
  /\ \E app \in InstanceApps \ instances[i].attempted :
        instances' = [instances EXCEPT
                        ![i] = [DoRegister(@, app) EXCEPT !.attempted = @ \cup {app}]]
  /\ UNCHANGED nonInstanceVars

\* ApplicationServer.Start on the instance i, with checkDependencies
InstanceStart(i) ==
  /\ ~instances[i].started
  /\ \A n \in DOMAIN instances[i].appsByName :
        \A dep \in Dependencies(instances[i].appsByName[n]) :
           dep \in DOMAIN instances[i].appsByName
  /\ instances' = [instances EXCEPT ![i].started = TRUE]
  /\ UNCHANGED nonInstanceVars

\* A block on the instance i: BeginBlock goes to the applications in
\* appsByLexOrder, each of which emits an event and writes its state; the
\* app hash of the block covers the writes of all blocks.
InstanceBlock(i) ==
  /\ instances[i].started
  /\ Len(instances[i].blocks) < MaxHeight
  /\ LET m == instances[i]
         height == Len(m.blocks) + 1
         events == [k \in 1..Len(m.appsByLexOrder) |->
                      [app |-> m.appsByLexOrder[k], height |-> height]]
         prev == IF m.blocks = <<>> THEN <<>> ELSE m.blocks[Len(m.blocks)].appHash
     IN instances' = [instances EXCEPT
                        ![i].blocks = Append(@, [events |-> events,
                                                 appHash |-> prev \o events])]
  /\ UNCHANGED nonInstanceVars

(***************************************************************************)
(* EstimateGas.  It runs on a thread of its own, next to the calls of the   *)
(* consensus engine: it makes a context, passes the transaction through    *)
(* processTx on the state of that context, and returns the gas the context *)
(* accounted when it closes the context.  A context of the mempool works   *)
(* on checkTxTree, a context of a simulation on a tree of its own that is  *)
(* loaded from the backing database at the committed height, any other     *)
(* context on deliverTxTree.                                                *)
(***************************************************************************)
\* An estimate that runs in a context of the mempool.
EstimateGasModeCheckTx == "ContextCheckTx"

\* The mode of the context EstimateGas makes.
EstimateGasMode == "ContextSimulateTx"

\* NewContext: the tree a context of the mode works on.
ContextState(mode) ==
  IF mode = "ContextCheckTx" THEN "checkTxTree"
  ELSE IF mode = "ContextSimulateTx" THEN "fork"
  ELSE "deliverTxTree"

\* The version the backing database holds for a height.
LoadVersion(h) == IF h = 0 THEN EmptyTree ELSE saved[h]

\* The working state of the tree the context of the call in flight works on.
SimulationTree ==
  IF simulation.state = "checkTxTree" THEN checkTxTree
  ELSE IF simulation.state = "deliverTxTree" THEN deliverTxTree
  ELSE simulation.tree

\* abciMux.EstimateGas, its call of NewContext.
EstimateGasNewContext ==
  /\ phase \in {"begin", "txs", "commit"}
  /\ simulation.pc = "idle"
  /\ simulation' = [pc |-> "ctx", state |-> ContextState(EstimateGasMode),
                    version |-> blockHeight, tree |-> LoadVersion(blockHeight),
                    gas |-> 0]
  /\ UNCHANGED <<vars, nonSimulationVars>>

\* abciMux.EstimateGas, its call of processTx on one of the transactions txs.
\* Every handler that is called uses gas.
EstimateGasProcessTx(txs) ==
  /\ phase \in {"begin", "txs", "commit"}
  /\ simulation.pc = "ctx"
  /\ \E tx \in txs, answer \in Answers :
       LET r == ProcessTx(SimulationTree, tx, answer)
       IN /\ simulation' = [simulation EXCEPT
                              !.pc = "done",
                              !.tree = IF simulation.state = "fork"
                                       THEN r.tree ELSE @,
                              !.gas = Len(r.calls)]
          /\ checkTxTree' = IF simulation.state = "checkTxTree"
                            THEN r.tree ELSE checkTxTree
          /\ deliverTxTree' = IF simulation.state = "deliverTxTree"
                              THEN r.tree ELSE deliverTxTree
  /\ UNCHANGED <<muxVars, haltMode, blockHeight, blockHash, checkTxVersion,
                 saved, epochs, phase, txCount, registered, last, watchVars>>
  /\ UNCHANGED nonSimulationVars

\* abciMux.EstimateGas, its return: the context is closed and the tree of a
\* simulation is dropped with it.
EstimateGasReturn ==
  /\ phase \in {"begin", "txs", "commit"}
  /\ simulation.pc = "done"
  /\ simulation' = NoSimulation
  /\ UNCHANGED <<vars, nonSimulationVars>>

(***************************************************************************)
(* EpochChanged.  An application calls it in its BeginBlock; the key        *)
(* manager application recomputes its statuses when it answers true.  The  *)
(* chain is followed by its committed height, the epochs the oracle has    *)
(* for the heights 1..height+1, and the call made in each block: whether   *)
(* it found the epoch changed, the epoch it returned (-1 is EpochInvalid)  *)
(* and whether onEpochChange ran.                                          *)
(***************************************************************************)
\* ApplicationState.EpochChanged at the committed height blockHeight.
\* oracle[h] is the oracle's epoch for the height h; errAt is the call of
\* GetEpoch that returns an error, 0 when none does.
EpochChanged(height, oracle, errAt) ==
  IF height = 0 THEN [changed |-> FALSE, epoch |-> -1]
  ELSE IF height = 1
  THEN IF errAt = 1 THEN [changed |-> FALSE, epoch |-> -1]
       ELSE [changed |-> FALSE, epoch |-> oracle[height]]
  ELSE IF errAt = 1 THEN [changed |-> FALSE, epoch |-> -1]
  ELSE IF errAt = 2 THEN [changed |-> FALSE, epoch |-> -1]
  ELSE LET previousEpoch == oracle[height]
           currentEpoch == oracle[height + 1]
       IN IF previousEpoch = currentEpoch
          THEN [changed |-> FALSE, epoch |-> currentEpoch]
          ELSE [changed |-> TRUE, epoch |-> currentEpoch]

\* keymanagerApplication.BeginBlock: onEpochChange runs when the epoch has
\* changed.
KmBeginBlock(r) ==
  [changed |-> r.changed, epoch |-> r.epoch, onEpochChange |-> r.changed]

\* A block of the chain: the oracle has an epoch for the height of the
\* block, not below the one before; the application's BeginBlock runs at
\* the committed height, and the block is committed.
EpochBlock ==
  /\ epochChain.height < MaxBlocks
  /\ \E e \in 0..MaxEpoch, errAt \in 0..2 :
       LET oracle == Append(epochChain.oracle, e)
           height == epochChain.height
       IN /\ height > 0 => epochChain.oracle[height] <= e
          /\ errAt # 0 => height > 0
          /\ errAt = 2 => height > 1
          /\ epochChain' =
               [height |-> height + 1,
                oracle |-> oracle,
                calls |-> Append(epochChain.calls,
                                 KmBeginBlock(EpochChanged(height, oracle, errAt))
                                   @@ [errAt |-> errAt])]
  /\ UNCHANGED nonEpochChainVars

(***************************************************************************)
(* The keys of the authenticated data structure (storage/alg): a key is a  *)
(* slice of bytes k and the index msbBix of its first bit that is not      *)
(* consumed; bit 0 of the key is the bit msbBix of the slice, counted from *)
(* the most significant bit of the first byte.  A byte is a number below   *)
(* 256, and k[i] of the code is k[i + 1] here.                             *)
(***************************************************************************)
\* b >> n and byte(b << n) of a byte b
Shr(b, n) == b \div (2 ^ n)

Shl(b, n) == (b * (2 ^ n)) % 256

\* a | b and a &^ b of two bytes
RECURSIVE BitOr(_, _)
BitOr(a, b) ==
  IF a = 0 /\ b = 0 THEN 0
  ELSE (IF a % 2 = 1 \/ b % 2 = 1 THEN 1 ELSE 0) + 2 * BitOr(a \div 2, b \div 2)

RECURSIVE BitAndNot(_, _)
BitAndNot(a, b) ==
  IF a = 0 THEN 0
  ELSE (IF a % 2 = 1 /\ b % 2 = 0 THEN 1 ELSE 0) + 2 * BitAndNot(a \div 2, b \div 2)

NewKey(externalKey) == [k |-> externalKey, msbBix |-> 0]

Clone(key) == [k |-> key.k, msbBix |-> key.msbBix]

NumBits(key) == 8 * Len(key.k) - key.msbBix

\* Key.GetBit for a bix in 0..NumBits-1
GetBit(key, bix) ==
  LET kix == key.msbBix + bix
  IN Shr(key.k[(kix \div 8) + 1], 7 - (kix % 8)) % 2

\* Key.SetBit for a bix in 0..NumBits-1 and a bit v
SetBit(key, bix, v) ==
  LET kix == key.msbBix + bix
      off == kix \div 8
      bitpos == 7 - (kix % 8)
  IN [key EXCEPT !.k[off + 1] = BitOr(BitAndNot(@, Shl(1, bitpos)), Shl(v, bitpos))]

\* Key.DropBits for a count in 0..NumBits
DropBits(key, count) == [key EXCEPT !.msbBix = @ + count]

\* What a splitter returns, or that it panicked.
SplitPanic == [panic |-> TRUE, pfx |-> NewKey(<<>>), sfx |-> NewKey(<<>>)]

SplitReturn(pfx, sfx) == [panic |-> FALSE, pfx |-> pfx, sfx |-> sfx]

\* The loop of SplitAtObviouslyCorrect, from jx on.
RECURSIVE CopyBits(_, _, _, _)
CopyBits(pfx, sfx, jx, ix) ==
  IF jx >= ix THEN pfx
  ELSE CopyBits(SetBit(pfx, jx, GetBit(sfx, jx)), sfx, jx + 1, ix)

\* Key.SplitAtObviouslyCorrect
SplitAtObviouslyCorrect(key, ix) ==
  IF ix < 0 \/ NumBits(key) < ix THEN SplitPanic
  ELSE LET nbytes == (ix + 7) \div 8
           pfx == [k |-> [i \in 1..nbytes |-> 0], msbBix |-> 8 * nbytes - ix]
           sfx == Clone(key)
       IN SplitReturn(CopyBits(pfx, sfx, 0, ix), DropBits(sfx, ix))

\* The loop of SplitAt, with kx bytes of pfxK still to fill.
RECURSIVE ShiftCopy(_, _, _, _, _, _, _)
ShiftCopy(k, pfxK, partial, kx, jx, numHiBits, numLowBits) ==
  IF kx <= 0 THEN pfxK
  ELSE LET b == IF 0 <= jx THEN k[jx + 1] ELSE 0
       IN ShiftCopy(k, [pfxK EXCEPT ![kx] = BitOr(partial, Shl(b, numHiBits))],
                    Shr(b, numLowBits), kx - 1, jx - 1, numHiBits, numLowBits)

\* A SplitAt that never shifts: the prefix is the bytes before the split.
SplitAtUnshifted(key, ix) ==
  IF ix < 0 \/ NumBits(key) < ix THEN SplitPanic
  ELSE LET splitBix == ix + key.msbBix
       IN SplitReturn([k |-> SubSeq(key.k, 1, splitBix \div 8), msbBix |-> key.msbBix],
                      [k |-> key.k, msbBix |-> splitBix])

\* Key.SplitAt
SplitAt(key, ix) ==
  IF ix < 0 \/ NumBits(key) < ix THEN SplitPanic
  ELSE LET splitBix == ix + key.msbBix
       IN IF splitBix % 8 = 0
          THEN SplitReturn([k |-> SubSeq(key.k, 1, splitBix \div 8),
                            msbBix |-> key.msbBix],
                           [k |-> key.k, msbBix |-> splitBix])
          ELSE LET nb == (ix + 7) \div 8
                   boundary == splitBix \div 8
                   numHiBits == splitBix % 8
                   numLowBits == 8 - numHiBits
                   partial == Shr(key.k[boundary + 1], numLowBits)
                   pfxK == ShiftCopy(key.k, [i \in 1..nb |-> 0], partial, nb,
                                     boundary - 1, numHiBits, numLowBits)
               IN SplitReturn([k |-> pfxK, msbBix |-> 8 * nb - ix],
                              [k |-> key.k, msbBix |-> splitBix])

\* The bytes the keys are made of: those of the test, no bit, one bit at either end
\* and every bit.
ByteValues == {0, 1, 122, 128, 165, 255}

\* The key of externalKey with dropped bits consumed, and an index to split
\* it at.
KeyNew ==
  /\ split = NoSplit
  /\ \E n \in 0..MaxKeyBytes :
       \E externalKey \in [1..n -> ByteValues], dropped \in 0..(8 * n) :
         LET key == DropBits(NewKey(externalKey), dropped)
         IN \E ix \in (0 - 1)..(NumBits(key) + 1) :
              split' = [NoSplit EXCEPT !.key = key, !.ix = ix, !.pc = "key"]
  /\ UNCHANGED nonSplitVars

\* The key is split at the index by both splitters.
KeySplitAt ==
  /\ split.pc = "key"
  /\ split' = [split EXCEPT !.fast = SplitAt(split.key, split.ix),
                            !.obvious = SplitAtObviouslyCorrect(split.key, split.ix),
                            !.pc = "done"]
  /\ UNCHANGED nonSplitVars

(***************************************************************************)
(* Specifications.  Spec: the block lifecycle and the two state cursors,   *)
(* over the applications CoreApps.  SpecOrder: every order of Register     *)
(* calls over all of AppObjs, followed by the first block.  SpecWatch: the  *)
(* watchers of invalidated transactions against CheckTx.                   *)
(***************************************************************************)
CoreApps == {"P1"}

Next ==
  \/ \E app \in CoreApps : Register(app)
  \/ RegisterHaltHook
  \/ SetEpochtime
  \/ Start
  \/ InitChain({1})
  \/ BeginBlock
  \/ DeliverTx(CoreTxs)
  \/ CheckTx(CoreTxs)
  \/ EndBlock({})
  \/ Commit

Spec == Init /\ [][Next]_vars

NextOrder ==
  \/ \E app \in AppObjs : Register(app)
  \/ SetEpochtime
  \/ Start
  \/ InitChain({0, 1})
  \/ BeginBlock
  \/ DeliverTx(Txs)
  \/ EndBlock({})

SpecOrder == Init /\ [][NextOrder]_vars

\* Every order of Register calls, and the first block with the mempool
\* checking transactions next to it.
NextMempool ==
  \/ NextOrder
  \/ CheckTx(Txs)

SpecMempool == Init /\ [][NextMempool]_vars

\* Every order of Register calls, and the first block with timers due at
\* its end.
NextTimers ==
  \/ \E app \in AppObjs : Register(app)
  \/ RegisterHaltHook
  \/ SetEpochtime
  \/ Start
  \/ InitChain({1})
  \/ BeginBlock
  \/ EndBlock(1..MaxTimers)

SpecTimers == Init /\ [][NextTimers]_vars

NextWatch ==
  \/ Register("P1")
  \/ SetEpochtime
  \/ Start
  \/ InitChain({1})
  \/ CheckTx(Txs)
  \/ \E h \in Hashes : WatchInvalidatedTx(h)
  \/ \E id \in 1..MaxSubs : SubReceive(id)
  \/ NotifySend
  \/ NotifyClose
  \/ NotifyDelete

SpecWatch == Init /\ [][NextWatch]_vars

\* The watchers of invalidated transactions, which close their
\* subscriptions when they please.
NextWatchClose ==
  \/ Register("P1")
  \/ SetEpochtime
  \/ Start
  \/ InitChain({1})
  \/ CheckTx(CoreTxs)
  \/ \E tx \in CoreTxs : WatchInvalidatedTx(tx.hash)
  \/ \E id \in 1..MaxSubs : SubReceive(id)
  \/ NotifySend
  \/ NotifyClose
  \/ NotifyDelete
  \/ \E id \in 1..MaxSubs : SubscriptionClose(id)

SpecWatchClose == Init /\ [][NextWatchClose]_vars

\* CheckTx runs on the thread of the consensus engine, which is scheduled:
\* a step of it that can be taken is taken.
SpecWatchLive ==
  SpecWatch /\ WF_vars(NotifySend) /\ WF_vars(NotifyClose) /\ WF_vars(NotifyDelete)

\* The handlers of the registry application over every request in every
\* mode, with the epochs advancing and runtimes being suspended in between.
NextRegistry ==
  \/ RegisterEntity(Modes, {})
  \/ DeregisterEntity(Modes, {"gas"})
  \/ RegisterNode(Modes, {})
  \/ RegisterRuntime(Modes, {})
  \/ SuspendRuntime
  \/ EpochTransition

SpecRegistry == Init /\ [][NextRegistry]_regVars

\* The handlers in the transactions of blocks, of which some are the first
\* of an epoch and some are not.
NextRegistryBlocks ==
  \/ RegisterEntity({"DeliverTx"}, {})
  \/ RegisterNode({"DeliverTx", "CheckTx"}, {})
  \/ RegisterRuntime({"DeliverTx"}, {})
  \/ EpochTransition
  \/ NextBlock

SpecRegistryBlocks == Init /\ [][NextRegistryBlocks]_regVars

\* The handlers in the transactions of a block, with the calls they make
\* outside the registry failing at any point.
NextRegistryFaults ==
  \/ RegisterEntity({"DeliverTx"}, {})
  \/ RegisterNode({"DeliverTx"}, NodeFaults \cup {"resume"})
  \/ RegisterRuntime({"DeliverTx"}, {})
  \/ SuspendRuntime
  \/ EpochTransition

SpecRegistryFaults == Init /\ [][NextRegistryFaults]_regVars

TxModes == {"DeliverTx", "CheckTx"}

\* The five handlers in the modes of a transaction, with requests that fail verification
\* and a gas accountant that may be out of gas, over nodes that get frozen.
NextRegistryCheck ==
  \/ RegisterEntity(TxModes, {"verify", "gas"})
  \/ DeregisterEntity(TxModes, {"gas"})
  \/ RegisterNode(TxModes, {})
  \/ RegisterRuntime({"CheckTx"}, {"verify"})
  \/ RegisterRuntime({"DeliverTx"}, {})
  \/ UnfreezeNode(TxModes, {"gas"})
  \/ FreezeNode
  \/ EpochTransition

SpecRegistryCheck == Init /\ [][NextRegistryCheck]_regVars

\* SpecKm: the key manager application over a registry that gets runtimes
\* and nodes.
NextKm ==
  \/ KmGenesis
  \/ KmRegisterRuntime
  \/ KmRegisterNode
  \/ OnEpochChange(1..3)

SpecKm == Init /\ [][NextKm]_kmVars

\* SpecStaking: the transactions, the blocks and the epochs of the staking
\* application.
NextStaking ==
  \/ StakingTx
  \/ StakingEndBlock
  \/ StakingEpochChange

SpecStaking == Init /\ [][NextStaking]_stakingVars

\* SpecScheduler: the registrations and the elections of the scheduler.
NextScheduler ==
  \/ SchedulerRegisterNode
  \/ SchedulerRegisterRuntime
  \/ SchedulerEpochTransition

SpecScheduler == Init /\ [][NextScheduler]_schedulerState

\* SpecInstances: two multiplexers, each registering the applications in its
\* own order and running blocks.
NextInstances ==
  \E i \in 1..2 :
     \/ InstanceRegister(i)
     \/ InstanceStart(i)
     \/ InstanceBlock(i)

SpecInstances == Init /\ [][NextInstances]_instances

\* The block lifecycle with EstimateGas calls running next to it.
NextEstimate ==
  \/ Register("P1")
  \/ SetEpochtime
  \/ Start
  \/ InitChain({1})
  \/ BeginBlock
  \/ DeliverTx(CoreTxs)
  \/ EndBlock({})
  \/ Commit
  \/ EstimateGasNewContext
  \/ EstimateGasProcessTx(CoreTxs)
  \/ EstimateGasReturn

SpecEstimate == Init /\ [][NextEstimate]_estimateVars

\* The blocks of a chain with the epochs of the oracle and the calls of
\* EpochChanged.
NextEpochChain == EpochBlock

SpecEpochChain == Init /\ [][NextEpochChain]_epochChain

\* Keys of every length up to MaxKeyBytes, with any number of their bits
\* consumed, split at every index.
NextKey ==
  \/ KeyNew
  \/ KeySplitAt

SpecKey == Init /\ [][NextKey]_split

(***************************************************************************)
(* Properties.  They read the record of the last call: the hooks it       *)
(* invoked, in order, and what it returned.                                *)
(***************************************************************************)
\* The applications called with the hook kind by the last call, in call order.
AppsOf(kind) ==
  LET cs == SelectSeq(last.calls, LAMBDA c : c[1] = kind)
  IN [i \in 1..Len(cs) |-> cs[i][2]]

\* The positions of the calls of the hook kind in the last call.
PosOf(kind) == {i \in 1..Len(last.calls) : last.calls[i][1] = kind}

Ascending(apps) ==
  \A i, j \in 1..Len(apps) : i < j => StrLess(Name(apps[i]), Name(apps[j]))

ExactlyOnce(apps, a) == Cardinality({i \in 1..Len(apps) : apps[i] = a}) = 1

Registered == Range(registered)

LifecycleKinds ==
  CASE last.op = "InitChain" -> {"InitChain"}
    [] last.op = "BeginBlock" -> {"BeginBlock"}
    [] last.op = "EndBlock" -> {"FireTimers", "EndBlock"}
    [] OTHER -> {}

EveryAppOnceInLexOrder ==
  \A kind \in LifecycleKinds :
     /\ Ascending(AppsOf(kind))
     /\ \A a \in Registered : ExactlyOnce(AppsOf(kind), a)

\* C1 (as claimed): a DeliverTx that returns a non-OK code leaves the state
\* root of the delivery cursor as it was before the transaction.
C1_FailedDeliverTxKeepsRoot ==
  (last.op = "DeliverTx" /\ last.res # "ok") => Root(deliverTxTree) = last.pre

\* C2 (as claimed): every InitChain, BeginBlock, timer firing and EndBlock
\* that returns has invoked every registered application exactly once, in
\* ascending lexicographic order of the names.
C2_EveryPhaseDispatches ==
  (last.op \in {"InitChain", "BeginBlock", "EndBlock"} /\ last.res \in {"ok", "empty"})
    => EveryAppOnceInLexOrder

\* C2 (amended): whatever the order of the Register calls, every InitChain,
\* BeginBlock, timer firing and EndBlock that returns outside halt mode has
\* invoked every registered application exactly once, in ascending
\* lexicographic order of the names; a BeginBlock or EndBlock that returns
\* in halt mode has invoked no application.
C2_LexOrderDispatch ==
  last.op \in {"InitChain", "BeginBlock", "EndBlock"} =>
    /\ last.res = "ok" => EveryAppOnceInLexOrder
    /\ last.res = "empty" => \A kind \in LifecycleKinds : AppsOf(kind) = <<>>

\* Three applications registered in descending order of their names, and
\* a block that ran to the end of EndBlock.
C2_Witness ==
  /\ registered = <<"P3", "P2", "P1">>
  /\ last.op = "EndBlock"
  /\ last.res = "ok"

Owner == appsByMethod[last.tx.method]

ExecuteRunsFirst ==
  /\ AppsOf("ExecuteTx") = <<Owner>>
  /\ \A i \in PosOf("ExecuteTx"), j \in PosOf("ForeignExecuteTx") : i < j
  /\ Ascending(AppsOf("ForeignExecuteTx"))
  /\ Owner \notin Range(AppsOf("ForeignExecuteTx"))

\* C3 (as claimed): once the owning application A has executed the
\* transaction, every other registered application receives exactly one
\* ForeignExecuteTx, in ascending order of the names, and A receives none.
C3_EveryOtherAppGetsHook ==
  (last.op = "DeliverTx" /\ last.res \in {"ok", "foreign"}) =>
    /\ ExecuteRunsFirst
    /\ \A a \in Registered \ {Owner} : ExactlyOnce(AppsOf("ForeignExecuteTx"), a)

\* C3 (amended): A.ExecuteTx runs first; when it returns an error no
\* application receives ForeignExecuteTx; otherwise the other registered
\* applications receive ForeignExecuteTx in ascending order of the names,
\* each at most once, up to and including the first that returns an error,
\* which ends the dispatch; when none returns an error every registered
\* application other than A receives exactly one.  A receives none.
C3_ForeignDispatch ==
  (last.op = "DeliverTx" /\ PosOf("ExecuteTx") # {}) =>
    LET fa == AppsOf("ForeignExecuteTx")
    IN /\ ExecuteRunsFirst
       /\ last.res \in {"ok", "execute", "foreign"}
       /\ last.res = "execute" => fa = <<>>
       /\ last.res = "ok" => \A a \in Registered \ {Owner} : ExactlyOnce(fa, a)
       /\ last.res = "foreign" =>
            /\ fa # <<>>
            /\ \A a \in Registered \ {Owner} :
                 StrLess(Name(a), Name(fa[Len(fa)])) => ExactlyOnce(fa, a)

\* Three registered applications, and the first of the two foreign
\* applications returned an error.
C3_Witness ==
  /\ Len(registered) = 3
  /\ last.op = "DeliverTx"
  /\ last.res = "foreign"
  /\ Len(AppsOf("ForeignExecuteTx")) = 1

\* C4: after every Commit that returns, the mempool cursor is at the version
\* just committed and its state equals the committed state of the delivery
\* cursor, so the writes CheckTx made before are gone; and no CheckTx changes
\* the delivery cursor or a committed version.
C4_MempoolFollowsCommit ==
  /\ []((last.op = "Commit" /\ last.res = "ok") =>
          /\ checkTxVersion = blockHeight
          /\ checkTxTree = saved[blockHeight]
          /\ checkTxTree = deliverTxTree
          /\ Root(checkTxTree) = blockHash)
  /\ [][(txCount' # txCount /\ last'.op = "CheckTx") =>
          (deliverTxTree' = deliverTxTree /\ saved' = saved)]_vars

\* A Commit that returned, before which CheckTx had written the fee account
\* through the mempool cursor; the write is not in the reloaded state.
C4_Witness ==
  /\ last.op = "Commit"
  /\ last.res = "ok"
  /\ last.mempool["fee"] # 0
  /\ checkTxTree["fee"] = 0

\* A Commit returns: the engine goes on to the next BeginBlock.
CommitReturns == phase = "commit" /\ phase' = "begin"

\* C5: committed versions are sequential and equal to the block height: a
\* Commit that returns raises BlockHeight() by exactly 1, nothing else
\* changes it, and BlockHash(), which Commit returns and Info reports, is
\* the root of exactly the version BlockHeight().
C5_SequentialVersions ==
  /\ [](/\ Info.LastBlockHeight = Len(saved)
        /\ Info.LastBlockAppHash =
             IF blockHeight = 0 THEN Root(EmptyTree) ELSE Root(saved[blockHeight]))
  /\ [][/\ CommitReturns => blockHeight' = blockHeight + 1
        /\ blockHeight' # blockHeight =>
             (phase = "commit" /\ blockHeight' = blockHeight + 1)]_vars

\* Two blocks committed, the second with another root than the first.
C5_Witness ==
  /\ blockHeight = 2
  /\ last.op = "Commit"
  /\ last.res = "ok"
  /\ blockHash # Root(saved[1])

SaveFailed == <<<<"SaveVersion", "error">>>>
LoadFailed == <<<<"SaveVersion", "ok">>, <<"LoadVersion", "error">>>>

\* C6: Commit panics when saving the new version fails and when reloading
\* the mempool cursor fails; it never returns with the two cursors at
\* different versions; a failed save leaves the recorded height and hash
\* (and the stored versions) unchanged.
C6_CommitAllOrNothing ==
  /\ [](/\ last.op = "Commit" =>
             /\ last.calls \in {SaveFailed, LoadFailed} => phase = "crashed"
             /\ last.res = "ok" => last.calls \notin {SaveFailed, LoadFailed}
        /\ phase # "crashed" => (checkTxVersion = blockHeight /\ blockHeight = Len(saved)))
  /\ [][(phase = "commit" /\ last'.calls = SaveFailed) =>
          /\ blockHeight' = blockHeight
          /\ blockHash' = blockHash
          /\ saved' = saved
          /\ phase' = "crashed"]_vars

\* The new version was saved and the reload failed: Commit panicked with
\* the mempool cursor still at the old version.
C6_Witness ==
  /\ last.op = "Commit"
  /\ last.calls = LoadFailed
  /\ phase = "crashed"
  /\ checkTxVersion # blockHeight

SubIds == 1..Len(subs)

\* C7: a failing Recheck of a transaction with a watcher attempts one send
\* on the watcher's channel, closes it once and removes the subscription
\* before CheckTx returns; no channel ever gets a second send or close; a
\* failing CheckTx that is no Recheck, and a passing CheckTx, return without
\* notifying, and outside a notification no subscription is removed and no
\* channel is sent on or closed.
C7_NotifyOnce ==
  /\ [](/\ \A id \in SubIds :
             /\ subs[id].sends <= 1
             /\ subs[id].closes <= 1
             /\ subs[id].closes <= subs[id].sends
             /\ subs[id].closed <=> subs[id].closes = 1
        /\ (notify.pc = "idle" /\ last.op = "CheckTx" /\ last.watcher # 0) =>
             /\ subs[last.watcher].sends = 1
             /\ subs[last.watcher].closes = 1
             /\ \A h \in DOMAIN invalidatedTxs : invalidatedTxs[h] # last.watcher
        /\ (last.op = "CheckTx" /\ (last.res = "ok" \/ last.type # "Recheck")) =>
             (last.watcher = 0 /\ notify.pc = "idle"))
  /\ [][/\ (/\ txCount' # txCount
            /\ last'.res # "ok"
            /\ last'.type = "Recheck"
            /\ last'.tx.hash \in DOMAIN invalidatedTxs) =>
             (notify'.pc = "send" /\ notify'.sub = invalidatedTxs[last'.tx.hash])
        /\ (notify.pc = "idle" /\ notify'.pc = "idle") =>
             /\ \A id \in SubIds :
                  /\ subs'[id].sends = subs[id].sends
                  /\ subs'[id].closes = subs[id].closes
             /\ \A h \in DOMAIN invalidatedTxs :
                  h \in DOMAIN invalidatedTxs' /\ invalidatedTxs'[h] = invalidatedTxs[h]]_vars

\* A watcher was notified and removed, and a later Recheck of the same
\* transaction failed and found no subscription.
C7_Witness ==
  /\ notify.pc = "idle"
  /\ last.op = "CheckTx"
  /\ last.type = "Recheck"
  /\ last.res # "ok"
  /\ last.watcher = 0
  /\ \E id \in SubIds :
       /\ subs[id].txHash = last.tx.hash
       /\ subs[id].closed
       /\ subs[id].sends = 1

\* C8 (as claimed): a subscriber that watched a transaction whose Recheck
\* failed has received exactly one error when it observes its channel closed.
C8_SubscriberGetsOneError ==
  \A id \in SubIds : subs[id].sawClosed => subs[id].got = 1

\* C9: a failing Recheck that has a subscriber to notify completes: CheckTx
\* returns whatever the subscriber does, also when it never receives.
C9_RecheckReturns == (notify.pc # "idle") ~> (notify.pc = "idle")

\* CheckTx has notified a subscriber and returned, and the subscriber has
\* not received anything from its channel.
C9_Witness ==
  /\ notify.pc = "idle"
  /\ last.op = "CheckTx"
  /\ last.watcher # 0
  /\ subs[last.watcher].closed
  /\ subs[last.watcher].got = 0
  /\ ~subs[last.watcher].waiting
  /\ ~subs[last.watcher].sawClosed

AppHooks == {"AuthenticateTx", "ExecuteTx", "ForeignExecuteTx", "InitChain",
             "BeginBlock", "FireTimers", "FireTimer", "EndBlock"}

\* A BeginBlock that gets past the redundancy check.
BeginBlockRuns == lastBeginBlock' # lastBeginBlock

\* C10: in the first BeginBlock for which the oracle answers the halt epoch
\* for the next block, every halt hook is called exactly once and no
\* application hook runs; from then on no call invokes a halt hook, the
\* auth handler or an application hook: CheckTx and DeliverTx are rejected
\* by decodeTx, EndBlock returns the empty response, and so does every
\* BeginBlock for which the oracle still answers the halt epoch.
C10_HaltEpoch ==
  [][/\ (~haltMode /\ BeginBlockRuns /\ last'.epoch = HaltEpochHeight) =>
          /\ haltMode'
          /\ last'.res = "empty"
          /\ Len(last'.calls) = haltHooks
          /\ \A h \in 1..haltHooks :
               Cardinality({i \in 1..Len(last'.calls) : last'.calls[i] = <<"HaltHook", h>>}) = 1
     /\ haltMode =>
          /\ haltMode'
          /\ \A i \in 1..Len(last'.calls) : last'.calls[i][1] \notin AppHooks \cup {"HaltHook"}
          /\ last'.op \in {"CheckTx", "DeliverTx"} => last'.res = "halt"
          /\ last'.op = "EndBlock" => last'.res = "empty"
          /\ (BeginBlockRuns /\ last'.epoch = HaltEpochHeight) => last'.res = "empty"]_vars

\* The halt hook ran in the BeginBlock of the first block, the second block
\* is still in the halt epoch, and a transaction delivered in it is rejected.
C10_Witness ==
  /\ haltMode
  /\ haltHooks = 1
  /\ epochs[1] = HaltEpochHeight
  /\ epochs[2] = HaltEpochHeight
  /\ lastBeginBlock = 1
  /\ last.op = "DeliverTx"
  /\ last.res = "halt"

\* C11 (as claimed): a BeginBlock for which the oracle answers an epoch
\* greater than the halt epoch for the next block panics and calls no
\* application, and no transaction is executed in a block of such an epoch.
C11_PastHaltEpochPanics ==
  /\ (last.op = "BeginBlock" /\ last.epoch > HaltEpochHeight) =>
       (last.res = "panic" /\ last.calls = <<>>)
  /\ (last.op = "DeliverTx" /\ epochs[blockHeight + 1] > HaltEpochHeight) =>
       last.calls = <<>>

TxOps == {"CheckTx", "DeliverTx"}

\* C12: when the InitChain, BeginBlock, FireTimers or EndBlock hook of an
\* application returns an error the multiplexer panics and the engine gets
\* no response; a CheckTx or DeliverTx never panics, and it returns the OK
\* response only when the transaction decoded, its method has an owner and
\* no handler returned an error, the response of the error otherwise.
C12_HooksPanicTxsReturn ==
  /\ [](last.op \in {"InitChain", "BeginBlock", "EndBlock"} =>
          /\ last.failed # None => (last.res = "panic" /\ phase = "crashed")
          /\ (last.res = "panic" /\ last.calls # <<>>) => last.failed # None)
  /\ [][txCount' # txCount =>
          /\ last'.op \in TxOps
          /\ phase' = phase
          /\ last'.res # "panic"
          /\ last'.res = "ok" <=>
               /\ DecodeTx(last'.tx) = None
               /\ last'.tx.method \in DOMAIN appsByMethod
               /\ last'.failed = None]_vars

\* The timers of the second of three applications returned an error in
\* EndBlock, after a transaction had been refused with an error response.
C12_Witness ==
  /\ Len(registered) = 3
  /\ last.op = "EndBlock"
  /\ last.failed = appsByLexOrder[2]
  /\ phase = "crashed"
  /\ txCount > 0

\* The timers fired by the last call, in call order.
FiredTimers ==
  LET cs == SelectSeq(last.calls, LAMBDA c : c[1] = "FireTimer")
  IN [i \in 1..Len(cs) |-> <<cs[i][2], cs[i][3]>>]

\* Lexicographic order of (application name, address).
TimerLess(t, u) ==
  \/ StrLess(Name(t[1]), Name(u[1]))
  \/ t[1] = u[1] /\ t[2] < u[2]

TimersInOrder ==
  /\ \A i, j \in 1..Len(FiredTimers) : i < j => TimerLess(FiredTimers[i], FiredTimers[j])
  /\ Range(FiredTimers) \subseteq last.due
  /\ \A i \in PosOf("FireTimer"), j \in PosOf("EndBlock") : i < j

C14_InitChainEventsReported ==
  /\ (last.op = "BeginBlock" /\ last.res = "ok") =>
       last.events = IF blockHeight = 0 THEN <<"InitChain", "BeginBlock">>
                     ELSE <<"BeginBlock">>
  /\ (last.op = "DeliverTx" /\ last.res = "ok") => last.events = <<"DeliverTx">>
  /\ (last.op = "EndBlock" /\ last.res = "ok") => last.events = <<"EndBlock">>
  /\ (blockHeight >= 1 /\ phase # "crashed") => deliverTxTree["events"] = 0

\* The applications in the registry of the multiplexer.
InRegistry == {appsByName[n] : n \in DOMAIN appsByName}

\* C15: after any sequence of Register calls no two applications whose
\* Register returned nil share a name or a method, at most one of them is
\* blessed, each is in the registry under its name and owns each of its
\* methods; the registry holds one application per name, one owner per
\* method, which declares the method, and at most one blessed application.
C15_RegistryInvariant ==
  /\ \A i, j \in 1..Len(registered) :
       i # j =>
         /\ Name(registered[i]) # Name(registered[j])
         /\ Range(Methods(registered[i])) \cap Range(Methods(registered[j])) = {}
  /\ Cardinality({a \in Registered : Blessed(a)}) <= 1
  /\ \A a \in Registered :
       /\ Name(a) \in DOMAIN appsByName
       /\ appsByName[Name(a)] = a
       /\ \A m \in Range(Methods(a)) : m \in DOMAIN appsByMethod /\ appsByMethod[m] = a
  /\ \A n \in DOMAIN appsByName : Name(appsByName[n]) = n
  /\ \A m \in DOMAIN appsByMethod : m \in Range(Methods(appsByMethod[m]))
  /\ Cardinality({a \in InRegistry : Blessed(a)}) <= 1
  /\ appBlessed # None => Blessed(appBlessed)

\* An application was registered, and the Register of a second one
\* returned an error for a method that the first owns.
C15_Witness ==
  /\ registered = <<"P2">>
  /\ appsByMethod["m2"] = "P2"
  /\ "m4" \in DOMAIN appsByMethod

\* C16 (as claimed): when Start has returned nil an epoch time source is
\* set and every dependency of every registered application is the name of
\* a registered application.
C16_StartNeedsDependencies ==
  phase # "setup" =>
    /\ timeSource
    /\ \A a \in Registered : \A dep \in Dependencies(a) :
         \E b \in Registered : Name(b) = dep

(***************************************************************************)
(* Properties of the registry handlers.  In a step of a handler regLast'   *)
(* is the call, registryState the state before it and registryState' the   *)
(* state it leaves.                                                        *)
(***************************************************************************)
Admits(rt, e) == AdmissionPolicy(rt).AnyNode \/ e \in AdmissionPolicy(rt).Entities

KnownRuntimes(st) == st.runtimes \cup st.suspendedRuntimes

\* An executed registerNode of a registered entity, with the right signer,
\* all of whose runtimes are registered, suspended or not.
ExecutedRegisterNode ==
  /\ regLast'.op = "registerNode"
  /\ regLast'.mode # "CheckTx"
  /\ regLast'.node.EntityID \in registryState.entities
  /\ regLast'.err # "ErrIncorrectTxSigner"
  /\ Range(regLast'.node.Runtimes) \subseteq KnownRuntimes(registryState)

\* C17: no registered node lists a runtime whose admission policy does not
\* admit its entity; an executed registerNode for a node that lists a
\* runtime whose whitelist lacks the node's entity fails with ErrForbidden
\* and leaves the state unchanged, and a node all of whose runtimes admit
\* its entity is not rejected by the admission check.
C17_AdmissionPolicyDecides ==
  /\ [](\A i \in DOMAIN registryState.nodes :
          \A rt \in Range(registryState.nodes[i].Runtimes) :
             Admits(rt, registryState.nodes[i].EntityID))
  /\ [][ExecutedRegisterNode =>
          IF \E rt \in Range(regLast'.node.Runtimes) :
                ~Admits(rt, regLast'.node.EntityID)
          THEN regLast'.err = "ErrForbidden" /\ registryState' = registryState
          ELSE regLast'.err \notin {"ErrForbidden", "ErrNoSuchRuntime"}]_regVars

NodeRegisteredEvents(events) ==
  {i \in 1..Len(events) : events[i].key = "NodeRegistered"}

\* C18: a registerNode that returns an error, at whichever step after the
\* checkpoint, leaves the nodes, the node statuses and the active and
\* suspended runtimes as they were before the call and emits no
\* NodeRegistered event.
C18_ErrorRollsBack ==
  [][(regLast'.op = "registerNode" /\ regLast'.err # None) =>
       /\ registryState' = registryState
       /\ NodeRegisteredEvents(regLast'.events) = {}]_regVars

\* A registerNode that failed at the write of the node status, after it had
\* written the record of a node that was not registered.
C18_Witness ==
  /\ regLast.op = "registerNode"
  /\ regLast.fault = "setNodeStatus"
  /\ regLast.err = "ErrInvalidArgument"
  /\ regLast.node.ID \notin DOMAIN registryState.nodes
  /\ regLast.node.Runtimes # <<>>

RuntimeRegisteredEvents(events, rt) ==
  {i \in 1..Len(events) : events[i] = Event("RuntimeRegistered", rt)}

\* A registerNode that passes every check of the handler other than the
\* loading of its runtimes: executed, of a registered entity, with the right
\* signer, admitted by the policy of each of its runtimes, not expired at
\* the next epoch, and an admissible update if the node is live.
AdmissibleRegisterNode ==
  /\ ExecutedRegisterNode
  /\ \A rt \in Range(regLast'.node.Runtimes) : Admits(rt, regLast'.node.EntityID)
  /\ regLast'.node.Expiration > regEpoch
  /\ \/ regLast'.node.ID \notin DOMAIN registryState.nodes
     \/ IsExpired(registryState.nodes[regLast'.node.ID], regEpoch)
     \/ VerifyNodeUpdate(registryState.nodes[regLast'.node.ID], regLast'.node) = None

\* C19: a registerNode that succeeds resumes each of its runtimes that was
\* suspended, with one RuntimeRegistered event for it, and leaves its other
\* runtimes as they were without an event; a suspended runtime leaves the
\* suspended ones only by such a registration; and the registration of an
\* admissible node that lists a suspended runtime is such a registration:
\* it succeeds.
C19_RegistrationResumesRuntimes ==
  /\ [][(regLast'.op = "registerNode" /\ regLast'.mode # "CheckTx"
         /\ regLast'.err = None) =>
          \A rt \in Range(regLast'.node.Runtimes) :
             IF rt \in registryState.suspendedRuntimes
             THEN /\ rt \in registryState'.runtimes
                  /\ rt \notin registryState'.suspendedRuntimes
                  /\ Cardinality(RuntimeRegisteredEvents(regLast'.events, rt)) = 1
             ELSE /\ (rt \in registryState'.runtimes) = (rt \in registryState.runtimes)
                  /\ rt \notin registryState'.suspendedRuntimes
                  /\ RuntimeRegisteredEvents(regLast'.events, rt) = {}]_regVars
  /\ [][\A rt \in registryState.suspendedRuntimes :
           rt \notin registryState'.suspendedRuntimes =>
             /\ regLast'.op = "registerNode"
             /\ regLast'.err = None
             /\ rt \in Range(regLast'.node.Runtimes)]_regVars
  /\ [][(/\ AdmissibleRegisterNode
         /\ Range(regLast'.node.Runtimes) \cap registryState.suspendedRuntimes # {})
          => regLast'.err = None]_regVars

\* What a deregisterEntity may do to the state when it removes: the entity
\* is gone and nothing else changed.
EntityRemoved ==
  /\ regLast'.id \in registryState.entities
  /\ registryState' = RemoveEntity(registryState, regLast'.id)
  /\ regLast'.events = <<Event("EntityDeregistered", regLast'.id)>>

\* C20 as stated: a deregisterEntity by an entity that has a registered
\* node fails with ErrEntityHasNodes, removes nothing and emits no event;
\* the entity is removed and the event emitted only with zero nodes.
C20_EntityWithNodesFails ==
  [][regLast'.op = "deregisterEntity" =>
       IF HasEntityNodes(registryState, regLast'.id)
       THEN /\ regLast'.err = "ErrEntityHasNodes"
            /\ registryState' = registryState
            /\ regLast'.events = <<>>
       ELSE \/ regLast'.err = None /\ EntityRemoved
            \/ registryState' = registryState /\ regLast'.events = <<>>]_regVars

\* C20 as amended: in every mode a deregisterEntity by an entity that has a
\* registered node removes nothing and emits no event; executed in
\* InitChain or DeliverTx mode with its gas charged it fails with
\* ErrEntityHasNodes, while in check-only mode it returns nil and without
\* the gas it fails with the error of the gas accountant; a registered
\* entity with zero nodes is removed, with one entity-deregistered event,
\* when the call is executed and its gas charged.
C20_EntityWithNodesStays ==
  [][regLast'.op = "deregisterEntity" =>
       IF HasEntityNodes(registryState, regLast'.id)
       THEN /\ regLast'.err = IF regLast'.mode = "CheckTx" THEN None
                              ELSE IF regLast'.fault = "gas" THEN "ErrOutOfGas"
                              ELSE "ErrEntityHasNodes"
            /\ registryState' = registryState
            /\ regLast'.events = <<>>
       ELSE IF /\ regLast'.mode # "CheckTx" /\ regLast'.fault = None
               /\ regLast'.id \in registryState.entities
       THEN regLast'.err = None /\ EntityRemoved
       ELSE registryState' = registryState /\ regLast'.events = <<>>]_regVars

\* A deregisterEntity that was refused because the entity has a node.
C20_Witness ==
  /\ regLast.op = "deregisterEntity"
  /\ regLast.err = "ErrEntityHasNodes"
  /\ HasEntityNodes(registryState, regLast.id)
  /\ regLast.id \in registryState.entities

\* C21: registerEntity with a signed entity that an earlier registerEntity
\* has stored leaves the registry state as that call left it: executed a
\* second time it changes nothing in the state, whatever it returns.
C21_RegisterEntityIdempotent ==
  [][(regLast'.op = "registerEntity" /\ regLast'.id \in registryState.entities)
       => registryState' = registryState]_regVars

\* A second registerEntity of an entity that has a node by now, executed
\* with success.
C21_Witness ==
  /\ regLast.op = "registerEntity"
  /\ regLast.mode = "DeliverTx"
  /\ regLast.err = None
  /\ HasEntityNodes(registryState, regLast.id)

(***************************************************************************)
(* The key manager application.                                            *)
(***************************************************************************)
\* the key manager runtimes of the registry
KeyManagerRuntimes ==
  {id \in Range(kmRegistry.runtimes) : KmRuntime(id).Kind = "KindKeyManager"}

\* the status of a runtime recomputed from the stored one and the nodes
Recomputed(id) ==
  GenerateStatus(KmRuntime(id),
                 IF id \in DOMAIN kmStatuses THEN kmStatuses[id] ELSE NewStatus(id),
                 SortNodeList(kmRegistry.nodes))

\* the runtime has no stored status, or the recomputed status differs
NewOrChanged(id) ==
  id \notin DOMAIN kmStatuses \/ Recomputed(id) # kmStatuses[id]

\* the encoded statuses of the status-update events of a call
EmittedStatuses(call) ==
  UNION {Range(call.events[i].value) : i \in 1..Len(call.events)}

\* C22: an epoch transition that returns stores the status of a key manager
\* runtime and includes it in the status-update event iff the runtime had no
\* stored status or the recomputed status differs from the stored one; the
\* stored status is then the recomputed one, and when no status is new or
\* changed no event is emitted and no status is written.
C22_StatusesEmittedOnChange ==
  [][(kmLast'.op = "epochChange" /\ kmLast'.err = None) =>
       /\ \A id \in KeyManagerRuntimes :
             /\ id \in kmLast'.stored <=> NewOrChanged(id)
             /\ Marshal(Recomputed(id)) \in EmittedStatuses(kmLast') <=> NewOrChanged(id)
             /\ NewOrChanged(id) => kmStatuses'[id] = Recomputed(id)
       /\ kmLast'.stored \subseteq KeyManagerRuntimes
       /\ Len(kmLast'.events) <= 1
       /\ (\A id \in KeyManagerRuntimes : ~NewOrChanged(id)) =>
             /\ kmLast'.events = <<>>
             /\ kmLast'.stored = {}
             /\ kmStatuses' = kmStatuses]_kmVars

\* An epoch transition stored and emitted the status of one key manager
\* runtime and left the unchanged status of another alone.
C22_Witness ==
  /\ kmLast.op = "epochChange" /\ kmLast.err = None
  /\ kmLast.events # <<>>
  /\ \E a, b \in KeyManagerRuntimes :
        /\ a \in kmLast.stored
        /\ b \notin kmLast.stored /\ b \in DOMAIN kmStatuses
        /\ kmStatuses[b].IsInitialized

\* the runtime entry of the node n for the runtime id: the first one
ReportedBy(n, id) ==
  n.Runtimes[CHOOSE i \in 1..Len(n.Runtimes) :
               /\ n.Runtimes[i].ID = id
               /\ \A j \in 1..(i - 1) : n.Runtimes[j].ID # id]

\* the policy checksum a node runtime reports, none being the digest of
\* nothing
ReportedPolicyHash(nodeRt) ==
  IF nodeRt.ExtraInfo.PolicyChecksum = <<>> THEN Sum256(<<>>)
  ELSE nodeRt.ExtraInfo.PolicyChecksum

\* the SHA3-256 digest of the on-chain policy
PolicyDigest(policy) ==
  IF policy = NoPolicy THEN Sum256(<<>>) ELSE Sum256(Marshal(policy))

\* the node has the key manager role, lists the runtime with matching TEE
\* hardware and valid extra info, and reports the digest of the policy
Eligible(n, id, policy) ==
  /\ n.KM
  /\ \E i \in 1..Len(n.Runtimes) : n.Runtimes[i].ID = id
  /\ LET nodeRt == ReportedBy(n, id)
     IN /\ KmRuntime(id).TEEHardware =
             (IF nodeRt.TEE = None THEN "TEEHardwareInvalid" ELSE nodeRt.TEE)
        /\ nodeRt.ExtraInfo.Valid
        /\ ReportedPolicyHash(nodeRt) = PolicyDigest(policy)

\* the node is eligible and reports the IsSecure and the Checksum of the status
Agrees(n, st) ==
  /\ Eligible(n, st.ID, st.Policy)
  /\ ReportedBy(n, st.ID).ExtraInfo.IsSecure = st.IsSecure
  /\ ReportedBy(n, st.ID).ExtraInfo.Checksum = st.Checksum

\* the ids of the nodes that agree with the status, in node-id order
AgreeingNodes(st) ==
  LET Test(n) == Agrees(n, st)
      nodes == SelectSeq(SortNodeList(kmRegistry.nodes), Test)
  IN [i \in 1..Len(nodes) |-> nodes[i].ID]

\* the nodes that may initialize the status old, in node-id order: the
\* eligible ones, without the insecure ones when the status is set secure
Initializers(old) ==
  LET Test(n) == /\ Eligible(n, old.ID, old.Policy)
                 /\ old.IsSecure => ReportedBy(n, old.ID).ExtraInfo.IsSecure
  IN SelectSeq(SortNodeList(kmRegistry.nodes), Test)

\* C23: recomputing an uninitialized status, the first eligible node in
\* node-id order fixes IsSecure and Checksum and initializes the status (with
\* no such node the status stays as it was, without nodes); an initialized
\* status keeps IsSecure and Checksum; and the nodes of the resulting status
\* are exactly the nodes that have the key manager role, list the runtime,
\* match its TEE hardware, carry valid extra info, report the digest of the
\* on-chain policy and the IsSecure and Checksum of the status, in node-id
\* order.
C23_FirstNodeFixesStatus ==
  [][(kmLast'.op = "epochChange" /\ kmLast'.err = None) =>
       \A id \in KeyManagerRuntimes :
          LET old == IF id \in DOMAIN kmStatuses THEN kmStatuses[id] ELSE NewStatus(id)
              new == kmStatuses'[id]
              first == ReportedBy(Initializers(old)[1], id).ExtraInfo
          IN /\ new.ID = id /\ new.Policy = old.Policy
             /\ old.IsInitialized =>
                  /\ new.IsInitialized
                  /\ new.IsSecure = old.IsSecure /\ new.Checksum = old.Checksum
             /\ (~old.IsInitialized /\ Initializers(old) # <<>>) =>
                  /\ new.IsInitialized
                  /\ new.IsSecure = first.IsSecure /\ new.Checksum = first.Checksum
                  /\ new.Nodes[1] = Initializers(old)[1].ID
             /\ (~old.IsInitialized /\ Initializers(old) = <<>>) =>
                  new = [old EXCEPT !.Nodes = <<>>]
             /\ new.Nodes = AgreeingNodes(new)]_kmVars

\* An epoch transition initialized a status from the second of two eligible
\* nodes, the first one being insecure for a status set secure at genesis,
\* or initialized it from the first and left the disagreeing second out.
C23_Witness ==
  /\ kmLast.op = "epochChange" /\ kmLast.err = None
  /\ \E id \in kmLast.initialized :
        /\ Len(kmStatuses[id].Nodes) = 1
        /\ Len(kmRegistry.nodes) = 2
        /\ \A i \in 1..2 : Eligible(kmRegistry.nodes[i], id, kmStatuses[id].Policy)

(***************************************************************************)
(* The staking application.                                                *)
(***************************************************************************)
\* the tokens of the accounts: general, active escrow and debonding escrow
AccountTokens(st) ==
  SumOver(DOMAIN st.accounts,
          [a \in DOMAIN st.accounts |->
             st.accounts[a].General + st.accounts[a].Active.Balance
               + st.accounts[a].Debonding.Balance])

\* C24: in every state of the ledger, after transfers, added and reclaimed
\* escrow, completed debonding, deducted fees and drained fee pools, the
\* balances of the accounts plus the common pool plus the fees of the last
\* block equal the total supply, which is the supply of genesis, and the
\* sanity check of the supply passes.
C24_SupplyConserved ==
  /\ AccountTokens(stakingState) + stakingState.commonPool
       + stakingState.lastBlockFees = stakingState.totalSupply
  /\ stakingState.totalSupply = GenesisStaking.totalSupply
  /\ CheckSupply(stakingState) = None

\* Tokens are in an active pool, in a debonding pool, in the common pool and
\* in the fee pool at once, after an epoch change.
C24_Witness ==
  /\ stakingEpoch > 0
  /\ stakingState.commonPool > 0
  /\ stakingState.lastBlockFees > 0
  /\ \E a \in StakeAccounts : stakingState.accounts[a].Active.Balance > 0
  /\ \E a \in StakeAccounts : stakingState.accounts[a].Debonding.Balance > 0

\* C25: in every state of the ledger, for every account the shares of the
\* delegations to it add up to the total shares of its active pool and the
\* shares of the debonding delegations to it to the total shares of its
\* debonding pool, and the sanity check of the shares passes.
C25_SharesAddUp ==
  /\ \A a \in StakeAccounts :
        /\ SumOver(StakeAccounts, DelegationsTo(stakingState, a))
             = stakingState.accounts[a].Active.TotalShares
        /\ SumOver(StakeAccounts, DebondingDelegationsTo(stakingState, a))
             = stakingState.accounts[a].Debonding.TotalShares
  /\ CheckShares(stakingState) = None

\* Two delegators hold shares of one account's active pool while a debonding
\* delegation to the account is pending, after an epoch change.
C25_Witness ==
  /\ stakingEpoch > 0
  /\ \E a \in StakeAccounts :
        /\ \A d \in StakeAccounts : stakingState.delegations[<<a, d>>] > 0
        /\ \E d \in StakeAccounts : stakingState.debondingDelegations[<<a, d>>].Shares > 0

(***************************************************************************)
(* The scheduler.                                                          *)
(***************************************************************************)
\* the number of members of a committee with a role
Count(c, role) == Cardinality({i \in 1..Len(c.Members) : c.Members[i].Role = role})

C27_Deterministic ==
  (/\ instances[1].attempted = instances[2].attempted
   /\ instances[1].registered = instances[2].registered) =>
     \A h \in 1..Min2(Len(instances[1].blocks), Len(instances[2].blocks)) :
        /\ instances[1].blocks[h].events = instances[2].blocks[h].events
        /\ instances[1].blocks[h].appHash = instances[2].blocks[h].appHash

(***************************************************************************)
(* EstimateGas next to the block lifecycle.                                *)
(***************************************************************************)
\* C28: no step of an EstimateGas call changes the delivery cursor, the
\* mempool cursor, the version the mempool cursor was loaded at, a committed
\* version, the committed height or the app hash, whatever call of the
\* consensus engine it runs next to.
C28_EstimateGasFrame ==
  [][simulation' # simulation =>
       UNCHANGED <<deliverTxTree, checkTxTree, checkTxVersion, saved,
                   blockHeight, blockHash>>]_estimateVars

\* An estimate that wrote to its tree while a block was committed: its
\* context was made at an earlier height, and the cursors of the block in
\* progress hold none of its writes.
C28_Witness ==
  /\ simulation.pc = "done"
  /\ simulation.tree # LoadVersion(simulation.version)
  /\ simulation.version < blockHeight
  /\ phase = "txs"
  /\ deliverTxTree = LoadVersion(blockHeight)
  /\ checkTxTree = LoadVersion(blockHeight)

(***************************************************************************)
(* registerNode and the epoch of the next height.                          *)
(***************************************************************************)
\* The errors registerNode returns before it looks at the expiration.
BeforeExpiry == {"ErrNoSuchEntity", "ErrIncorrectTxSigner", "ErrNoSuchRuntime",
                 "ErrForbidden"}

\* C29: a call of registerNode returns ErrNodeExpired only for a descriptor
\* whose expiration is at most the epoch at the height of the next block,
\* and an executed call that passes the checks before it returns
\* ErrNodeExpired for every such descriptor: such a node is never registered.
C29_ExpiredAtNextEpoch ==
  [][regLast'.op = "registerNode" =>
       /\ regLast'.err = "ErrNodeExpired" =>
            /\ regLast'.mode # "CheckTx"
            /\ regLast'.node.Expiration <= regEpoch
       /\ (/\ regLast'.mode # "CheckTx"
           /\ regLast'.node.Expiration <= regEpoch
           /\ regLast'.err \notin BeforeExpiry)
            => /\ regLast'.err = "ErrNodeExpired"
               /\ registryState' = registryState]_regVars

\* In the first block of an epoch, a descriptor that expires with the epoch
\* of that block was rejected: it is not expired at the epoch of the height
\* before.
C29_Witness ==
  /\ regLast.op = "registerNode"
  /\ regLast.err = "ErrNodeExpired"
  /\ regLast.node.Expiration = regEpoch
  /\ regHeightEpoch < regEpoch

(***************************************************************************)
(* The maintenance fee of registerNode.                                    *)
(***************************************************************************)
\* The node a descriptor replaces while it is live at the epoch, NoNode when
\* the descriptor is of a new node or of one that has expired.
LiveNode(st, n, epoch) ==
  IF n.ID \in DOMAIN st.nodes /\ st.nodes[n.ID].Expiration > epoch
  THEN st.nodes[n.ID] ELSE NoNode

Max2(a, b) == IF a >= b THEN a ELSE b

\* The epochs a descriptor extends the registration of its node by.
Extension(st, n, epoch) ==
  IF LiveNode(st, n, epoch) = NoNode THEN n.Expiration - epoch
  ELSE Max2(0, n.Expiration - LiveNode(st, n, epoch).Expiration)

\* A call of registerNode that got as far as the maintenance fee.
ReachedFee(call) ==
  /\ call.op = "registerNode"
  /\ call.mode # "CheckTx"
  /\ call.err \notin BeforeExpiry \cup {"ErrNodeExpired"}

\* C30: a call of registerNode that gets to the maintenance fee charges one
\* operation for each paid runtime and each epoch the descriptor extends the
\* registration by: for a new or expired node the epochs from the epoch of
\* the next height to the expiration, for a live node the epochs beyond its
\* present expiration, none when the expiration is the same or earlier; the
\* minuend of each subtraction is at least its subtrahend.
C30_MaintenanceFee ==
  [][ReachedFee(regLast') =>
       LET n == regLast'.node
           old == LiveNode(registryState, n, regEpoch)
       IN /\ regLast'.feeCount = Len(n.Runtimes) * Extension(registryState, n, regEpoch)
          /\ regLast'.feeCount >= 0
          /\ n.Expiration >= regEpoch
          /\ old # NoNode => old.Expiration >= regEpoch
          /\ (old # NoNode /\ n.Expiration <= old.Expiration)
               => regLast'.feeCount = 0]_regVars

\* A live node with a paid runtime was registered again with the expiration
\* it had, at no charge, after it had paid for its epochs.
C30_Witness ==
  /\ ReachedFee(regLast)
  /\ regLast.err = None
  /\ regLast.node.Runtimes # <<>>
  /\ regLast.feeCount = 0
  /\ regLast.node.Expiration > regEpoch

\* A live node extends its registration by one epoch and pays for that one.
C30_WitnessExtension ==
  /\ ReachedFee(regLast)
  /\ regLast.err = None
  /\ Len(regLast.node.Runtimes) = 2
  /\ regLast.feeCount = 2
  /\ regLast.node.Expiration = regEpoch + 2

(***************************************************************************)
(* registerRuntime and the suspension of runtimes.                         *)
(***************************************************************************)
\* C31: an executed registerRuntime that returns nil leaves the set of the
\* suspended runtimes as it was; for a suspended runtime it leaves the
\* active ones alone too and emits no event, for any other runtime it
\* stores the runtime as active and emits one RuntimeRegistered event for it.
C31_RegisterRuntimeKeepsSuspension ==
  [][(/\ regLast'.op = "registerRuntime"
      /\ regLast'.mode # "CheckTx"
      /\ regLast'.err = None) =>
       LET id == regLast'.id
       IN /\ registryState'.suspendedRuntimes = registryState.suspendedRuntimes
          /\ IF id \in registryState.suspendedRuntimes
             THEN /\ registryState'.runtimes = registryState.runtimes
                  /\ regLast'.events = <<>>
             ELSE /\ registryState'.runtimes = registryState.runtimes \cup {id}
                  /\ regLast'.events = <<Event("RuntimeRegistered", id)>>]_regVars

\* A suspended runtime was registered again and is still suspended, next to
\* an active one.
C31_Witness ==
  /\ regLast.op = "registerRuntime"
  /\ regLast.mode # "CheckTx"
  /\ regLast.err = None
  /\ regLast.events = <<>>
  /\ regLast.id \in registryState.suspendedRuntimes
  /\ regLast.id \notin registryState.runtimes
  /\ registryState.runtimes # {}

(***************************************************************************)
(* EpochChanged and the epochs of the oracle.                              *)
(***************************************************************************)
\* C32: at every committed height, EpochChanged answers true exactly when
\* the oracle's epoch for the next height differs from its epoch for the
\* committed height, and onEpochChange of the key manager application runs
\* in exactly those blocks.
C32_EpochChangedAtEveryTransition ==
  \A h \in 1..(Len(epochChain.calls) - 1) :
    LET call == epochChain.calls[h + 1]
    IN /\ call.changed <=> epochChain.oracle[h + 1] # epochChain.oracle[h]
       /\ call.onEpochChange <=> epochChain.oracle[h + 1] # epochChain.oracle[h]

\* From the committed height 2 on, without an error of the oracle,
\* EpochChanged answers true exactly at the transitions.
C32_FromHeightTwo ==
  \A h \in 2..(Len(epochChain.calls) - 1) :
    LET call == epochChain.calls[h + 1]
    IN call.errAt = 0 =>
         (call.changed <=> epochChain.oracle[h + 1] # epochChain.oracle[h])

(***************************************************************************)
(* The statuses of the key manager runtimes over the epochs.               *)
(***************************************************************************)
\* C33: in every step, whatever was registered and whatever the epoch
\* transition returned, a stored status stays stored; one that is
\* initialized stays initialized with the IsSecure and the Checksum it has;
\* one that is not initialized and is secure stays secure.
C33_InitializedStatusIsFixed ==
  [][\A id \in DOMAIN kmStatuses :
       /\ id \in DOMAIN kmStatuses'
       /\ kmStatuses[id].IsInitialized =>
            /\ kmStatuses'[id].IsInitialized
            /\ kmStatuses'[id].IsSecure = kmStatuses[id].IsSecure
            /\ kmStatuses'[id].Checksum = kmStatuses[id].Checksum
       /\ (~kmStatuses[id].IsInitialized /\ kmStatuses[id].IsSecure) =>
            kmStatuses'[id].IsSecure]_kmVars

\* An epoch transition recomputed a status that was initialized before it,
\* over a key manager node that reports another checksum for the runtime;
\* the status has kept its checksum and has lost its nodes.
C33_Witness ==
  /\ kmLast.op = "epochChange" /\ kmLast.err = None
  /\ \E id \in DOMAIN kmStatuses :
        /\ kmStatuses[id].IsInitialized
        /\ id \notin kmLast.initialized
        /\ id \in kmLast.stored
        /\ kmStatuses[id].Nodes = <<>>
        /\ \E i \in 1..Len(kmRegistry.nodes) :
              LET n == kmRegistry.nodes[i]
              IN /\ n.KM
                 /\ \E j \in 1..Len(n.Runtimes) :
                       /\ n.Runtimes[j].ID = id
                       /\ n.Runtimes[j].ExtraInfo.Valid
                       /\ n.Runtimes[j].ExtraInfo.Checksum # kmStatuses[id].Checksum

(***************************************************************************)
(* Closing a subscription to an invalidated transaction.                   *)
(***************************************************************************)
\* C34: a Close of a subscription takes no other subscription out of
\* invalidatedTxs: every hash that is mapped to another subscription is
\* still mapped to it afterwards.
C34_CloseRemovesOnlyItself ==
  [][\A id \in 1..Len(subs) :
       (subs[id].mux /\ ~subs'[id].mux) =>
          \A h \in DOMAIN invalidatedTxs :
             invalidatedTxs[h] # id =>
               h \in DOMAIN invalidatedTxs' /\ invalidatedTxs'[h] = invalidatedTxs[h]]_vars

\* A Close of a subscription takes the subscription of another hash out of
\* no map.
C34_OtherHashesKept ==
  [][\A id \in 1..Len(subs) :
       (subs[id].mux /\ ~subs'[id].mux) =>
          \A h \in DOMAIN invalidatedTxs \ {subs[id].txHash} :
             h \in DOMAIN invalidatedTxs' /\ invalidatedTxs'[h] = invalidatedTxs[h]]_vars

(***************************************************************************)
(* What a rejected Register leaves behind.                                 *)
(***************************************************************************)
\* C35: a step that adds no application to those whose Register returned
\* nil leaves appsByName, appsByMethod, appsByLexOrder and appBlessed as
\* they were, and at all times every application that is in the registry,
\* owns a method, is dispatched to or is the blessed one is an application
\* whose Register returned nil.
C35_RejectedRegisterLeavesNothing ==
  [][/\ registered' = registered =>
          UNCHANGED <<appsByName, appsByMethod, appsByLexOrder, appBlessed>>
     /\ InRegistry \subseteq Registered
     /\ {appsByMethod[m] : m \in DOMAIN appsByMethod} \subseteq Registered
     /\ Range(appsByLexOrder) \subseteq Registered
     /\ appBlessed \in Registered \cup {None}]_vars

(***************************************************************************)
(* Transactions of a method that no application owns.                      *)
(***************************************************************************)
\* DeliverTx has decoded the transaction and passed it to processTx.
Processed ==
  /\ last.op = "DeliverTx"
  /\ last.res \notin {"halt", "oversized", "malformed"}

BeginBlockStep ==
  /\ phase \in {"begin", "txs"}
  /\ last'.op = "BeginBlock"
  /\ last' # last \/ phase' # phase

\* BeginBlock panicked before it recorded the height.
RedundantPanic == last'.res = "panic" /\ ~BeginBlockRuns

\* C37: BeginBlock panics as redundant exactly when a BeginBlock was called
\* before it with no Commit in between, which is when lastBeginBlock is the
\* last committed height; the first BeginBlock after InitChain and after
\* every Commit records the height and is not redundant, in halt mode too.
C37_RedundantBeginBlock ==
  [][BeginBlockStep =>
       /\ RedundantPanic <=> phase = "txs"
       /\ phase = "txs" <=> lastBeginBlock = blockHeight
       /\ phase = "begin" => lastBeginBlock' = blockHeight]_vars

\* In halt mode, after a Commit, a second BeginBlock of the block panicked.
C37_Witness ==
  /\ haltMode
  /\ blockHeight >= 1
  /\ last.op = "BeginBlock"
  /\ last.res = "panic"
  /\ last.calls = <<>>
  /\ last.epoch = -1
  /\ lastBeginBlock = blockHeight
  /\ phase = "crashed"

\* In halt mode, the first BeginBlock after a Commit returned.
C37_WitnessFirst ==
  /\ haltMode
  /\ blockHeight >= 1
  /\ last.op = "BeginBlock"
  /\ last.res = "empty"
  /\ lastBeginBlock = blockHeight

(***************************************************************************)
(* The registry handlers in the check-only mode.                           *)
(***************************************************************************)
CheckedHandlers ==
  {"registerEntity", "deregisterEntity", "registerNode", "unfreezeNode",
   "registerRuntime"}

\* A step of one of the handlers in the mode CheckTx.
CheckOnlyStep == regLast'.op \in CheckedHandlers /\ regLast'.mode = "CheckTx"

\* C38: a registry handler called in the mode CheckTx leaves the registry
\* state as it is, makes no call of UseGas, charges no maintenance fee and
\* emits no event, whatever the request and whether it returns an error.
C38_CheckOnlyHandlersWriteNothing ==
  [][CheckOnlyStep =>
       /\ registryState' = registryState
       /\ regLast'.gas = 0
       /\ regLast'.feeCount = 0
       /\ regLast'.events = <<>>]_regVars

\* unfreezeNode was called in the mode CheckTx, by the owner, for a node
\* that can be unfrozen.
C38_Witness ==
  /\ regLast.op = "unfreezeNode"
  /\ regLast.mode = "CheckTx"
  /\ regLast.err = None
  /\ regLast.id \in DOMAIN registryState.nodeStatus
  /\ registryState.nodeStatus[regLast.id].FreezeEndTime \in 1..regEpoch

\* registerEntity was called in the mode CheckTx with a request that fails
\* its verification.
C38_WitnessVerify ==
  /\ regLast.op = "registerEntity"
  /\ regLast.mode = "CheckTx"
  /\ regLast.err = "ErrInvalidArgument"

(***************************************************************************)
(* The owners of the registered nodes.                                     *)
(***************************************************************************)
\* C39: in every reachable state of the registry the entity each registered
\* node names as its owner is a registered entity.
C39_NodesHaveRegisteredEntities ==
  \A id \in DOMAIN registryState.nodes :
    registryState.nodes[id].EntityID \in registryState.entities

\* With a node registered, its entity asked to be deregistered in a
\* transaction and was refused.
C39_Witness ==
  /\ regLast.op = "deregisterEntity"
  /\ regLast.mode = "DeliverTx"
  /\ regLast.err = "ErrEntityHasNodes"
  /\ \E id \in DOMAIN registryState.nodes :
       registryState.nodes[id].EntityID = regLast.id
  /\ regLast.id \in registryState.entities

\* registerNode for an entity that is not registered was refused.
C39_WitnessNoEntity ==
  /\ regLast.op = "registerNode"
  /\ regLast.mode \in {"InitChain", "DeliverTx"}
  /\ regLast.err = "ErrNoSuchEntity"
  /\ regLast.node.EntityID \notin registryState.entities
  /\ registryState.entities # {}

(***************************************************************************)
(* Key.SplitAt against its reference.                                      *)
(***************************************************************************)
\* The bits of a key, from its first bit that is not consumed.
Bits(key) == [j \in 1..NumBits(key) |-> GetBit(key, j - 1)]

\* C40: for every key, with or without consumed bits, and every index from
\* 0 to the number of its bits, SplitAt returns the bit strings that
\* SplitAtObviouslyCorrect returns: the first ix bits of the key and the
\* bits after them; for every other index both panic.
C40_SplitAtAsReference ==
  (split.pc = "done") =>
    LET key == split.key
        ix == split.ix
    IN IF ix < 0 \/ ix > NumBits(key)
       THEN split.fast.panic /\ split.obvious.panic
       ELSE /\ ~split.fast.panic /\ ~split.obvious.panic
            /\ Bits(split.fast.pfx) = Bits(split.obvious.pfx)
            /\ Bits(split.fast.sfx) = Bits(split.obvious.sfx)
            /\ Bits(split.fast.pfx) = SubSeq(Bits(key), 1, ix)
            /\ Bits(split.fast.sfx) = SubSeq(Bits(key), ix + 1, NumBits(key))
            /\ NumBits(split.fast.pfx) = ix
            /\ NumBits(split.fast.sfx) = NumBits(key) - ix

\* A key with consumed bits was split inside a byte, into a prefix of more
\* than a byte that has bits of both kinds and a suffix that is not empty.
C40_Witness ==
  /\ split.pc = "done"
  /\ ~split.fast.panic
  /\ split.key.msbBix % 8 # 0
  /\ (split.key.msbBix + split.ix) % 8 # 0
  /\ split.ix > 8
  /\ NumBits(split.fast.sfx) > 0
  /\ {0, 1} \subseteq {Bits(split.fast.pfx)[j] : j \in 1..split.ix}

\* Both splitters panicked at an index past the last bit of the key.
C40_WitnessPanic ==
  /\ split.pc = "done"
  /\ split.ix = NumBits(split.key) + 1
  /\ split.fast.panic
====
